---- MODULE Spec2Model ----
(***************************************************************************)
(* A model of the complexity-calculator estimation pipeline:               *)
(*   lib/cpp-parser.ts            CppParser (growth lattice, parser)       *)
(*   lib/static-analyzer.ts       StaticComplexityAnalyzer                 *)
(*   lib/curve-fitting-engine.ts  CurveFittingEngine, CppComplexityAnalyzer*)
(*                                and EmpiricalComplexityRunner            *)
(*   test-gemini-api.mjs          ComplexityResultsMerger                  *)
(*   app/api/quick-analyze        the POST handlers                        *)
(*                                                                         *)
(* Text is modelled as a sequence of characters, each character a one-     *)
(* character string; the characters '²', '³' and '√' are written "sup2",   *)
(* "sup3" and "sqrt".  String operations of the source (includes, replace, *)
(* indexOf, concatenation) are modelled by what they do to the characters. *)
(***************************************************************************)
EXTENDS Integers, Sequences, FiniteSets, TLC

VARIABLES
  complexity1, complexity2,  \* arguments of a lattice call
  higher, product,           \* results of isHigherComplexity / multiplyComplexities
  pc,                        \* position of the running call
  staticResult,              \* StaticAnalysisResult
  empiricalResult,           \* EmpiricalAnalysisResult
  regressionResult,          \* RegressionAnalysis
  mergedResult,              \* MergedComplexityResult
  inputSizes, executionTimes, \* the arrays a CurveFittingEngine is built on
  code,                      \* the source text handed to an analyzer or a route
  lines, currentLine,        \* CppParser: the preprocessed lines, the line being read
  ast,                       \* CppParser: the root node being built
  response,                  \* the answer of the quick-analyze route
  options,                   \* CppComplexityAnalyzer: the options of the analysis
  testCases, testIndex,      \* EmpiricalComplexityRunner: the test cases, the one being run
  dataPoints,                \* EmpiricalComplexityRunner.analyze: the results collected
  thrown,                    \* the error that left CppComplexityAnalyzer.analyze, if any
  comprehensiveResult        \* the value CppComplexityAnalyzer.analyze returned

latticeVars == <<complexity1, complexity2, higher, product>>
resultVars == <<staticResult, empiricalResult, regressionResult, mergedResult>>
engineVars == <<inputSizes, executionTimes>>
parserVars == <<code, lines, currentLine, ast, response>>
pipelineVars == <<options, testCases, testIndex, dataPoints, thrown, comprehensiveResult>>
vars == <<complexity1, complexity2, higher, product, pc,
          staticResult, empiricalResult, regressionResult, mergedResult,
          inputSizes, executionTimes,
          code, lines, currentLine, ast, response,
          options, testCases, testIndex, dataPoints, thrown, comprehensiveResult>>

\* A result slot is a sequence: empty until the operation has run, then a
\* one-element sequence holding the value returned.
NoResult == <<>>
Some(v) == <<v>>
Val(slot) == slot[1]

(***************************************************************************)
(* String primitives                                                       *)
(***************************************************************************)

\* String.prototype.includes: sub occurs in s as a contiguous run.
Includes(s, sub) ==
  \E i \in 1..(Len(s) - Len(sub) + 1) : SubSeq(s, i, i + Len(sub) - 1) = sub

\* c.replace(/[()]/g, ''): every parenthesis removed.
StripParens(s) == SelectSeq(s, LAMBDA ch : ch \notin {"(", ")"})

\* Array.prototype.findIndex, 0-based, -1 when no element satisfies the
\* callback; hits[k] is the callback's result on the k-th element.
FindIndex(hits) ==
  IF \E k \in 1..Len(hits) : hits[k]
  THEN (CHOOSE k \in 1..Len(hits) : hits[k] /\ \A j \in 1..(k - 1) : ~hits[j]) - 1
  ELSE -1

\* Array.prototype.indexOf, 0-based, -1 when x is no element.
IndexOf(arr, x) == FindIndex([k \in 1..Len(arr) |-> arr[k] = x])

UpperCase == <<"A", "B", "C", "D", "E", "F", "G", "H", "I", "J", "K", "L", "M",
               "N", "O", "P", "Q", "R", "S", "T", "U", "V", "W", "X", "Y", "Z">>
LowerCase == <<"a", "b", "c", "d", "e", "f", "g", "h", "i", "j", "k", "l", "m",
               "n", "o", "p", "q", "r", "s", "t", "u", "v", "w", "x", "y", "z">>

\* String.prototype.toLowerCase
ToLowerCase(s) ==
  [i \in 1..Len(s) |->
     IF \E k \in 1..Len(UpperCase) : UpperCase[k] = s[i]
     THEN LowerCase[CHOOSE k \in 1..Len(UpperCase) : UpperCase[k] = s[i]]
     ELSE s[i]]

\* The characters the regular expression class \s matches.
WhiteSpace == {" ", "\n", "\t", "\r"}

\* The line terminators: '.' does not match them and '$' (flag m) stops there.
LineTerminators == {"\n", "\r"}

Digits == {"0", "1", "2", "3", "4", "5", "6", "7", "8", "9"}

\* The characters the regular expression class \w matches.
WordChars ==
  {UpperCase[k] : k \in 1..Len(UpperCase)} \cup {LowerCase[k] : k \in 1..Len(LowerCase)}
    \cup Digits \cup {"_"}

\* String.prototype.startsWith
StartsWith(s, prefix) ==
  Len(prefix) <= Len(s) /\ SubSeq(s, 1, Len(prefix)) = prefix

\* s.startsWith(sub, position - 1): sub occurs in s at the position.
OccursAt(s, sub, position) ==
  /\ position + Len(sub) - 1 <= Len(s)
  /\ \A i \in 1..Len(sub) : s[position + i - 1] = sub[i]

\* String.prototype.trim
Trim(s) ==
  IF \A i \in 1..Len(s) : s[i] \in WhiteSpace THEN <<>>
  ELSE LET first == CHOOSE i \in 1..Len(s) :
                      s[i] \notin WhiteSpace /\ \A j \in 1..(i - 1) : s[j] \in WhiteSpace
           last == CHOOSE i \in 1..Len(s) :
                     s[i] \notin WhiteSpace /\ \A j \in (i + 1)..Len(s) : s[j] \in WhiteSpace
       IN  SubSeq(s, first, last)

\* s.split('\n'): the pieces between the newlines, at least one piece.
RECURSIVE Split(_)
Split(s) ==
  IF \A i \in 1..Len(s) : s[i] # "\n" THEN <<s>>
  ELSE LET cut == CHOOSE i \in 1..Len(s) : s[i] = "\n" /\ \A j \in 1..(i - 1) : s[j] # "\n"
       IN  <<SubSeq(s, 1, cut - 1)>> \o Split(SubSeq(s, cut + 1, Len(s)))

\* pieces.join(' ')
RECURSIVE Join(_)
Join(pieces) ==
  IF Len(pieces) = 0 THEN <<>>
  ELSE IF Len(pieces) = 1 THEN pieces[1]
  ELSE pieces[1] \o <<" ">> \o Join(Tail(pieces))

\* The least member of a non-empty set of positions.
First(positions) == CHOOSE p \in positions : \A q \in positions : p <= q

\* The characters of s whose flag in keep is TRUE, in order.
Select(s, keep) ==
  LET kept == SelectSeq([i \in 1..Len(s) |-> i], LAMBDA i : keep[i])
  IN  [k \in 1..Len(kept) |-> s[kept[k]]]

\* The number of places where sub occurs in s, counted the way a global
\* match does: left to right, matches do not overlap.
RECURSIVE CountOccurrences(_, _, _)
CountOccurrences(s, sub, from) ==
  LET found == {p \in from..(Len(s) - Len(sub) + 1) : OccursAt(s, sub, p)}
  IN  IF Len(sub) = 0 THEN Len(s) + 2 - from
      ELSE IF found = {} THEN 0
      ELSE 1 + CountOccurrences(s, sub, First(found) + Len(sub))

(***************************************************************************)
(* Regular expressions                                                     *)
(*                                                                         *)
(* A regular expression is a sequence of alternatives, an alternative a    *)
(* sequence of items: a literal text, a character class taken once, at     *)
(* most once, any number of times or at least once, a group, or an anchor. *)
(* test() only asks whether some match exists, so a lazy quantifier is     *)
(* written as its greedy form.  A position is the index of the next        *)
(* character, from 1 to Len(text) + 1.                                     *)
(***************************************************************************)

In(chars) == [set |-> chars, negated |-> FALSE]
NotIn(chars) == [set |-> chars, negated |-> TRUE]
Space == In(WhiteSpace)
NotSpace == NotIn(WhiteSpace)
Word == In(WordChars)
Digit == In(Digits)
Dot == NotIn(LineTerminators)
AnyChar == NotIn({})

Lit(text) == [kind |-> "lit", text |-> text]
One(class) == [kind |-> "class", class |-> class, quantifier |-> "1"]
Opt(class) == [kind |-> "class", class |-> class, quantifier |-> "?"]
Star(class) == [kind |-> "class", class |-> class, quantifier |-> "*"]
Many(class) == [kind |-> "class", class |-> class, quantifier |-> "+"]
Group(regex) == [kind |-> "group", regex |-> regex, quantifier |-> "1"]
OptGroup(regex) == [kind |-> "group", regex |-> regex, quantifier |-> "?"]
Bol == [kind |-> "bol"]
Eol == [kind |-> "eol"]
WordBoundary == [kind |-> "wordb"]

\* The character is a member of the class.
InClass(char, class) == (char \in class.set) # class.negated

\* The number of characters of the class that follow one another from the
\* position on.
RunLength(class, text, position) ==
  Cardinality({k \in position..Len(text) :
                 \A j \in position..k : InClass(text[j], class)})

\* The positions reached from a position of starts by a run of characters
\* of the class, the empty run included.
RunEnds(class, text, starts) ==
  UNION {p..(p + RunLength(class, text, p)) : p \in starts}

\* The character at the position is a word character.
WordAt(text, position) ==
  position >= 1 /\ position <= Len(text) /\ text[position] \in WordChars

RECURSIVE MatchEnds(_, _, _)
RECURSIVE AlternativeEnds(_, _, _, _)
RECURSIVE ItemEnds(_, _, _)

\* The positions where a match of the item that begins in starts ends.
ItemEnds(item, text, starts) ==
  CASE item.kind = "lit" ->
         {p + Len(item.text) : p \in {q \in starts : OccursAt(text, item.text, q)}}
    [] item.kind = "class" ->
         LET once == {p + 1 : p \in {q \in starts :
                                       q <= Len(text) /\ InClass(text[q], item.class)}}
         IN  IF item.quantifier = "1" THEN once
             ELSE IF item.quantifier = "?" THEN starts \cup once
             ELSE IF item.quantifier = "*"
             THEN RunEnds(item.class, text, starts)
             ELSE RunEnds(item.class, text, once)
    [] item.kind = "group" ->
         LET ends == MatchEnds(item.regex, text, starts)
         IN  IF item.quantifier = "?" THEN starts \cup ends ELSE ends
    [] item.kind = "bol" -> starts \cap {1}
    [] item.kind = "eol" -> starts \cap {Len(text) + 1}
    [] item.kind = "wordb" ->
         {p \in starts : WordAt(text, p - 1) # WordAt(text, p)}

\* The items of the alternative from the k-th on, matched one after another.
AlternativeEnds(alternative, text, starts, k) ==
  IF starts = {} \/ k > Len(alternative) THEN starts
  ELSE AlternativeEnds(alternative, text, ItemEnds(alternative[k], text, starts), k + 1)

\* The positions where a match of the expression that begins in starts ends.
MatchEnds(regex, text, starts) ==
  UNION {AlternativeEnds(regex[a], text, starts, 1) : a \in 1..Len(regex)}

\* regex.test(text): the expression matches somewhere in the text.
Test(regex, text) == MatchEnds(regex, text, 1..(Len(text) + 1)) # {}

\* The positions where a match of the expression begins.
MatchStarts(regex, text) ==
  {p \in 1..(Len(text) + 1) : MatchEnds(regex, text, {p}) # {}}

(***************************************************************************)
(* Numbers                                                                 *)
(*                                                                         *)
(* A JavaScript number is modelled as an exact fraction [n, d] in lowest   *)
(* terms with d > 0.  The non-finite values keep the denominator 0:        *)
(* 0/0 is NaN, 1/0 is Infinity and -1/0 is -Infinity.  Rounding of the     *)
(* binary representation and the sign of zero are not modelled.            *)
(***************************************************************************)

Abs(a) == IF a < 0 THEN -a ELSE a

Sign(a) == IF a < 0 THEN -1 ELSE IF a > 0 THEN 1 ELSE 0

RECURSIVE GCD(_, _)
GCD(a, b) == IF b = 0 THEN a ELSE GCD(b, a % b)

\* The number n/d, d # 0, in lowest terms.
Frac(n, d) ==
  LET g == GCD(Abs(n), Abs(d))
  IN  [n |-> Sign(d) * (n \div g), d |-> Abs(d) \div g]

Num(i) == [n |-> i, d |-> 1]

NaN == [n |-> 0, d |-> 0]

Infinity == [n |-> 1, d |-> 0]

isNaN(a) == a.d = 0 /\ a.n = 0

isFinite(a) == a.d # 0

\* a + b
Plus(a, b) ==
  IF isNaN(a) \/ isNaN(b) THEN NaN
  ELSE IF a.d = 0 THEN (IF b.d = 0 /\ b.n # a.n THEN NaN ELSE a)
  ELSE IF b.d = 0 THEN b
  ELSE LET g == GCD(a.d, b.d)
       IN  Frac(a.n * (b.d \div g) + b.n * (a.d \div g), (a.d \div g) * b.d)

Negate(a) == [n |-> -a.n, d |-> a.d]

\* a - b
Minus(a, b) == Plus(a, Negate(b))

\* a * b
Times(a, b) ==
  IF a.d = 0 \/ b.d = 0 THEN [n |-> Sign(a.n) * Sign(b.n), d |-> 0]
  ELSE LET g1 == GCD(Abs(a.n), b.d)
           g2 == GCD(Abs(b.n), a.d)
       IN  [n |-> (a.n \div g1) * (b.n \div g2), d |-> (a.d \div g2) * (b.d \div g1)]

\* 1 / a
Reciprocal(a) ==
  IF isNaN(a) THEN NaN
  ELSE IF a.d = 0 THEN Num(0)
  ELSE IF a.n = 0 THEN Infinity
  ELSE [n |-> Sign(a.n) * a.d, d |-> Abs(a.n)]

\* a / b
Over(a, b) == Times(a, Reciprocal(b))

\* The position of a number on the extended line: -1, 0 or 1.
Rank(a) == IF a.d = 0 THEN a.n ELSE 0

\* a < b; every comparison with NaN is false.  Finite numbers are compared
\* by their integer parts first and by their fractional parts otherwise.
Lt(a, b) ==
  /\ ~isNaN(a)
  /\ ~isNaN(b)
  /\ IF a.d = 0 \/ b.d = 0 THEN Rank(a) < Rank(b)
     ELSE IF a.n \div a.d # b.n \div b.d THEN a.n \div a.d < b.n \div b.d
     ELSE LET g == GCD(a.d, b.d)
          IN  (a.n % a.d) * (b.d \div g) < (b.n % b.d) * (a.d \div g)

\* a > b
Gt(a, b) == Lt(b, a)

\* a >= b
Ge(a, b) == ~isNaN(a) /\ ~isNaN(b) /\ ~Lt(a, b)

\* Math.max(a, b) and Math.min(a, b): NaN if either argument is NaN.
MathMax(a, b) == IF isNaN(a) \/ isNaN(b) THEN NaN ELSE IF Lt(a, b) THEN b ELSE a

MathMin(a, b) == IF isNaN(a) \/ isNaN(b) THEN NaN ELSE IF Lt(b, a) THEN b ELSE a

\* Math.floor(a) and Math.ceil(a) of a finite number, as integers.
Floor(a) == a.n \div a.d

Ceil(a) == -((-a.n) \div a.d)

\* values.reduce((sum, val) => sum + val, 0), added left to right.
RECURSIVE Sum(_)
Sum(values) ==
  IF Len(values) = 0 THEN Num(0)
  ELSE Plus(Sum(SubSeq(values, 1, Len(values) - 1)), values[Len(values)])
(***************************************************************************)
(* Growth classes as the source spells them                                *)
(***************************************************************************)
O_1 == <<"O", "(", "1", ")">>
O_logn == <<"O", "(", "l", "o", "g", " ", "n", ")">>
O_sqrtn == <<"O", "(", "sqrt", "n", ")">>
O_n == <<"O", "(", "n", ")">>
O_nlogn == <<"O", "(", "n", " ", "l", "o", "g", " ", "n", ")">>
O_nsqrtn == <<"O", "(", "n", "sqrt", "n", ")">>
O_n2 == <<"O", "(", "n", "sup2", ")">>
O_n2logn == <<"O", "(", "n", "sup2", " ", "l", "o", "g", " ", "n", ")">>
O_n3 == <<"O", "(", "n", "sup3", ")">>
O_2n == <<"O", "(", "2", "^", "n", ")">>
O_nfact == <<"O", "(", "n", "!", ")">>
O_log2n == <<"O", "(", "l", "o", "g", "sup2", " ", "n", ")">>
O_nlog2n == <<"O", "(", "n", " ", "l", "o", "g", "sup2", " ", "n", ")">>
O_n2log2n == <<"O", "(", "n", "sup2", " ", "l", "o", "g", "sup2", " ", "n", ")">>
Unknown == <<"U", "n", "k", "n", "o", "w", "n">>

(***************************************************************************)
(* GrowthLattice: CppParser.isHigherComplexity / multiplyComplexities      *)
(***************************************************************************)

\* The order array of isHigherComplexity (the same in both classes).
order == <<O_1, O_logn, O_n, O_nlogn, O_n2, O_n3, O_2n, O_nfact>>

CanonicalClasses == {order[k] : k \in 1..Len(order)}

\* index1 > index2, each index the first entry of order whose text with the
\* parentheses removed occurs in the argument.
isHigherComplexity(c1, c2) ==
  LET index1 == FindIndex([k \in 1..Len(order) |-> Includes(c1, StripParens(order[k]))])
      index2 == FindIndex([k \in 1..Len(order) |-> Includes(c2, StripParens(order[k]))])
  IN  index1 > index2

\* The multiplications object: key (the two operands concatenated) and value.
multiplications ==
  <<
     <<<<"O", "(", "l", "o", "g", " ", "n", ")", "O", "(", "l", "o", "g", " ", "n", ")">>,
       O_log2n>>,
     <<<<"O", "(", "l", "o", "g", " ", "n", ")", "O", "(", "n", ")">>,
       O_nlogn>>,
     <<<<"O", "(", "l", "o", "g", " ", "n", ")", "O", "(", "n", " ", "l", "o", "g", " ", "n", ")">>,
       O_nlog2n>>,
     <<<<"O", "(", "n", ")", "O", "(", "n", ")">>,
       O_n2>>,
     <<<<"O", "(", "n", ")", "O", "(", "n", " ", "l", "o", "g", " ", "n", ")">>,
       O_n2logn>>,
     <<<<"O", "(", "n", ")", "O", "(", "n", "sup2", ")">>,
       O_n3>>,
     <<<<"O", "(", "n", " ", "l", "o", "g", " ", "n", ")", "O", "(", "n", " ", "l", "o", "g", " ", "n", ")">>,
       O_n2log2n>>
  >>

\* multiplications[key] || 'O(n²)'
LookupProduct(k) ==
  IF \E i \in 1..Len(multiplications) : multiplications[i][1] = k
  THEN multiplications[CHOOSE i \in 1..Len(multiplications) : multiplications[i][1] = k][2]
  ELSE O_n2

\* multiplyComplexities without the second early return.
multiplyComplexities_NoRightIdentity(c1, c2) ==
  IF c1 = O_1 THEN c2 ELSE LookupProduct(c1 \o c2)

multiplyComplexities(c1, c2) ==
  IF c1 = O_1 THEN c2
  ELSE IF c2 = O_1 THEN c1
  ELSE LookupProduct(c1 \o c2)

(***************************************************************************)
(* Reconciler: ComplexityResultsMerger                                     *)
(*                                                                         *)
(* Confidences, R² and reliabilities are exact fractions (0.95 is 95/100).  *)
(***************************************************************************)

\* complexity.replace(/\s/g, '')
RemoveWhiteSpace(s) == SelectSeq(s, LAMBDA ch : ch \notin WhiteSpace)

\* The mappings object of normalizeComplexity: key and standard form.
mappings ==
  <<
     <<<<"o", "(", "1", ")">>, O_1>>,
     <<<<"c", "o", "n", "s", "t", "a", "n", "t">>, O_1>>,
     <<<<"o", "(", "l", "o", "g", "n", ")">>, O_logn>>,
     <<<<"o", "(", "l", "o", "g", "(", "n", ")", ")">>, O_logn>>,
     <<<<"l", "o", "g", "a", "r", "i", "t", "h", "m", "i", "c">>, O_logn>>,
     <<<<"o", "(", "n", ")">>, O_n>>,
     <<<<"l", "i", "n", "e", "a", "r">>, O_n>>,
     <<<<"o", "(", "n", "l", "o", "g", "n", ")">>, O_nlogn>>,
     <<<<"o", "(", "n", "l", "o", "g", "(", "n", ")", ")">>, O_nlogn>>,
     <<<<"l", "i", "n", "e", "a", "r", "i", "t", "h", "m", "i", "c">>, O_nlogn>>,
     <<<<"o", "(", "n", "sup2", ")">>, O_n2>>,
     <<<<"o", "(", "n", "^", "2", ")">>, O_n2>>,
     <<<<"o", "(", "n", "*", "n", ")">>, O_n2>>,
     <<<<"q", "u", "a", "d", "r", "a", "t", "i", "c">>, O_n2>>,
     <<<<"o", "(", "n", "sup3", ")">>, O_n3>>,
     <<<<"o", "(", "n", "^", "3", ")">>, O_n3>>,
     <<<<"c", "u", "b", "i", "c">>, O_n3>>,
     <<<<"o", "(", "2", "^", "n", ")">>, O_2n>>,
     <<<<"o", "(", "2", "*", "*", "n", ")">>, O_2n>>,
     <<<<"e", "x", "p", "o", "n", "e", "n", "t", "i", "a", "l">>, O_2n>>,
     <<<<"o", "(", "n", "!", ")">>, O_nfact>>,
     <<<<"f", "a", "c", "t", "o", "r", "i", "a", "l">>, O_nfact>>
  >>

\* mappings[normalized] || complexity
normalizeComplexity(complexity) ==
  LET normalized == ToLowerCase(RemoveWhiteSpace(complexity))
  IN  IF \E i \in 1..Len(mappings) : mappings[i][1] = normalized
      THEN mappings[CHOOSE i \in 1..Len(mappings) : mappings[i][1] = normalized][2]
      ELSE complexity

\* The complexityOrder array of the merger (the same in its three users).
complexityOrder == <<O_1, O_logn, O_sqrtn, O_n, O_nlogn, O_n2, O_n3, O_2n, O_nfact>>

\* [getIndex(c1), getIndex(c2), getIndex(c3)].filter(i => i >= 0)
KnownIndices(c1, c2, c3) ==
  SelectSeq(<<IndexOf(complexityOrder, c1), IndexOf(complexityOrder, c2),
              IndexOf(complexityOrder, c3)>>, LAMBDA i : i >= 0)

SeqMax(s) == CHOOSE x \in {s[i] : i \in 1..Len(s)} : \A j \in 1..Len(s) : s[j] <= x
SeqMin(s) == CHOOSE x \in {s[i] : i \in 1..Len(s)} : \A j \in 1..Len(s) : s[j] >= x

areComplexitiesCompatible(c1, c2, c3) ==
  LET indices == KnownIndices(c1, c2, c3)
  IN  IF Len(indices) < 2 THEN FALSE
      ELSE SeqMax(indices) - SeqMin(indices) <= 2

hasSignificantConflict(c1, c2, c3) ==
  LET indices == KnownIndices(c1, c2, c3)
  IN  IF Len(indices) < 2 THEN FALSE
      ELSE SeqMax(indices) - SeqMin(indices) > 3

\* analyzeAgreement without the explanation text.
analyzeAgreement(static, empirical, regression) ==
  LET normalizedStatic == normalizeComplexity(static.overallComplexity.timeComplexity)
      normalizedEmpirical == normalizeComplexity(empirical.bestFitComplexity)
      normalizedRegression == normalizeComplexity(regression.bestFit.complexity)
  IN  IF normalizedStatic = normalizedEmpirical /\ normalizedEmpirical = normalizedRegression
      THEN [level |-> "high", consensusReached |-> TRUE]
      ELSE IF \/ normalizedStatic = normalizedEmpirical
              \/ normalizedStatic = normalizedRegression
              \/ normalizedEmpirical = normalizedRegression
      THEN [level |-> "medium", consensusReached |-> TRUE]
      ELSE IF areComplexitiesCompatible(normalizedStatic, normalizedEmpirical, normalizedRegression)
      THEN [level |-> "medium", consensusReached |-> TRUE]
      ELSE IF hasSignificantConflict(normalizedStatic, normalizedEmpirical, normalizedRegression)
      THEN [level |-> "conflict", consensusReached |-> FALSE]
      ELSE [level |-> "low", consensusReached |-> FALSE]

\* (indexA >= 0 ? indexA : 999), the sort key of sortComplexitiesByOrder.
OrderKey(c) ==
  LET index == IndexOf(complexityOrder, c) IN IF index >= 0 THEN index ELSE 999

\* complexities.sort(...) by OrderKey; the sort is stable.
RECURSIVE sortComplexitiesByOrder(_)
sortComplexitiesByOrder(complexities) ==
  IF Len(complexities) <= 1 THEN complexities
  ELSE LET first == Head(complexities)
           rest == sortComplexitiesByOrder(Tail(complexities))
           k == Cardinality({i \in 1..Len(rest) : OrderKey(rest[i]) < OrderKey(first)})
       IN  SubSeq(rest, 1, k) \o <<first>> \o SubSeq(rest, k + 1, Len(rest))

getLowerBound(c1, c2) == sortComplexitiesByOrder(<<c1, c2>>)[1]

getUpperBound(c1, c2) ==
  LET sorted == sortComplexitiesByOrder(<<c1, c2>>) IN sorted[Len(sorted)]

\* `Between ${staticComplexity} and ${empiricalComplexity}`
BetweenText(lo, hi) ==
  <<"B", "e", "t", "w", "e", "e", "n", " ">> \o lo \o <<" ", "a", "n", "d", " ">> \o hi

\* determineFinalComplexity taking the regression's label at level low.
determineFinalComplexity_LowUsesRegression(static, empirical, regression, agreement) ==
  LET staticComplexity == normalizeComplexity(static.overallComplexity.timeComplexity)
      empiricalComplexity == normalizeComplexity(empirical.bestFitComplexity)
      regressionComplexity == normalizeComplexity(regression.bestFit.complexity)
      sorted == sortComplexitiesByOrder(<<staticComplexity, empiricalComplexity, regressionComplexity>>)
      range == [lower |-> sorted[1], upper |-> sorted[Len(sorted)]]
      space == static.overallComplexity.spaceComplexity
  IN  CASE agreement.level = "high" ->
             [timeComplexity |-> staticComplexity,
              spaceComplexity |-> space,
              \* Math.min(static.confidence, regression.bestFit.confidence, 0.95)
              confidence |-> MathMin(MathMin(static.confidence, regression.bestFit.confidence),
                                     Frac(95, 100)),
              bounds |-> [lower |-> staticComplexity, upper |-> staticComplexity]]
        [] agreement.level = "medium" ->
             \* results.sort((a, b) => b.confidence - a.confidence)[0]: the static
             \* entry unless the two regression-confidence entries exceed it.
             LET first == IF Lt(static.confidence, regression.bestFit.confidence)
                          THEN [complexity |-> empiricalComplexity,
                                confidence |-> regression.bestFit.confidence]
                          ELSE [complexity |-> staticComplexity, confidence |-> static.confidence]
             IN [timeComplexity |-> first.complexity,
                 spaceComplexity |-> space,
                 confidence |-> Times(first.confidence, Frac(8, 10)),
                 bounds |-> range]
        [] agreement.level = "low" ->
             [timeComplexity |-> regressionComplexity,
              spaceComplexity |-> space,
              confidence |-> MathMin(Times(regression.bestFit.confidence, Frac(6, 10)), Frac(5, 10)),
              bounds |-> range]
        [] agreement.level = "conflict" ->
             [timeComplexity |-> BetweenText(staticComplexity, empiricalComplexity),
              spaceComplexity |-> space,
              confidence |-> Frac(3, 10),
              bounds |-> [lower |-> getLowerBound(staticComplexity, empiricalComplexity),
                          upper |-> getUpperBound(staticComplexity, empiricalComplexity)]]

determineFinalComplexity(static, empirical, regression, agreement) ==
  LET staticComplexity == normalizeComplexity(static.overallComplexity.timeComplexity)
      empiricalComplexity == normalizeComplexity(empirical.bestFitComplexity)
      regressionComplexity == normalizeComplexity(regression.bestFit.complexity)
      sorted == sortComplexitiesByOrder(<<staticComplexity, empiricalComplexity, regressionComplexity>>)
      range == [lower |-> sorted[1], upper |-> sorted[Len(sorted)]]
      space == static.overallComplexity.spaceComplexity
  IN  CASE agreement.level = "high" ->
             [timeComplexity |-> staticComplexity,
              spaceComplexity |-> space,
              \* Math.min(static.confidence, regression.bestFit.confidence, 0.95)
              confidence |-> MathMin(MathMin(static.confidence, regression.bestFit.confidence),
                                     Frac(95, 100)),
              bounds |-> [lower |-> staticComplexity, upper |-> staticComplexity]]
        [] agreement.level = "medium" ->
             \* results.sort((a, b) => b.confidence - a.confidence)[0]: the static
             \* entry unless the two regression-confidence entries exceed it.
             LET first == IF Lt(static.confidence, regression.bestFit.confidence)
                          THEN [complexity |-> empiricalComplexity,
                                confidence |-> regression.bestFit.confidence]
                          ELSE [complexity |-> staticComplexity, confidence |-> static.confidence]
             IN [timeComplexity |-> first.complexity,
                 spaceComplexity |-> space,
                 confidence |-> Times(first.confidence, Frac(8, 10)),
                 bounds |-> range]
        [] agreement.level = "low" ->
             [timeComplexity |-> empiricalComplexity,
              spaceComplexity |-> space,
              confidence |-> MathMin(Times(regression.bestFit.confidence, Frac(6, 10)), Frac(5, 10)),
              bounds |-> range]
        [] agreement.level = "conflict" ->
             [timeComplexity |-> BetweenText(staticComplexity, empiricalComplexity),
              spaceComplexity |-> space,
              confidence |-> Frac(3, 10),
              bounds |-> [lower |-> getLowerBound(staticComplexity, empiricalComplexity),
                          upper |-> getUpperBound(staticComplexity, empiricalComplexity)]]

validateStaticResults(static) ==
  /\ Gt(static.confidence, Frac(7, 10))
  /\ Len(static.functionAnalysis) > 0
  /\ static.overallComplexity.timeComplexity # Unknown

\* validateEmpiricalResults satisfied with three data points.
validateEmpiricalResults_ThreeSamples(empirical) ==
  /\ Gt(empirical.rSquared, Frac(5, 10))
  /\ Len(empirical.dataPoints) >= 3
  /\ empirical.errorMessage = ""

validateEmpiricalResults(empirical) ==
  /\ Gt(empirical.rSquared, Frac(5, 10))
  /\ Len(empirical.dataPoints) >= 5
  /\ empirical.errorMessage = ""

validateCrossConsistency(static, empirical, regression) ==
  analyzeAgreement(static, empirical, regression).level \in {"high", "medium"}

validateResults(static, empirical, regression) ==
  LET staticValidation == validateStaticResults(static)
      empiricalValidation == validateEmpiricalResults(empirical)
      crossValidation == validateCrossConsistency(static, empirical, regression)
  IN  [staticValidation |-> staticValidation,
       empiricalValidation |-> empiricalValidation,
       crossValidation |-> crossValidation,
       overallReliability |->
         Plus(Plus(IF staticValidation THEN Frac(4, 10) ELSE Num(0),
                   IF empiricalValidation THEN Frac(4, 10) ELSE Num(0)),
              IF crossValidation THEN Frac(2, 10) ELSE Num(0))]

\* merge(): agreement, final complexity and validation of the three results.
merge(static, empirical, regression) ==
  LET agreement == analyzeAgreement(static, empirical, regression)
  IN  [finalComplexity |-> determineFinalComplexity(static, empirical, regression, agreement),
       analysis |-> [static |-> static, empirical |-> empirical, regression |-> regression],
       agreement |-> agreement,
       validation |-> validateResults(static, empirical, regression)]


(***************************************************************************)
(* Regression engine: CurveFittingEngine                                   *)
(*                                                                         *)
(* The sizes are a sequence of integers and the times a sequence of       *)
(* numbers.  Math.log2 and Math.sqrt are exact on the sizes used here,     *)
(* which are powers of four.  Math.sqrt of the standard error is not       *)
(* taken: the field standardErrorSquared holds its radicand and the        *)
(* thresholds on the standard error are compared squared.                  *)
(***************************************************************************)

Square(a) == Times(a, a)

\* Math.log2(n) of a power of two.
Log2(n) == CHOOSE k \in 0..30 : 2^k = n

\* Math.sqrt(n) of a perfect square.
Sqrt(n) == CHOOSE k \in 0..n : k * k = n

Min(a, b) == IF a <= b THEN a ELSE b

RECURSIVE factorial(_)
factorial(n) ==
  IF n <= 1 THEN Num(1)
  ELSE IF n > 10 THEN Infinity
  ELSE Times(Num(n), factorial(n - 1))

\* The names of complexityFunctions, in order.
complexityFunctions ==
  <<O_1, O_logn, O_sqrtn, O_n, O_nlogn, O_nsqrtn, O_n2, O_n2logn, O_n3, O_2n, O_nfact>>

\* complexityFunctions[k].func(n)
ComplexityFunc(k, n) ==
  CASE k = 1 -> Num(1)
    [] k = 2 -> Num(Log2(n))
    [] k = 3 -> Num(Sqrt(n))
    [] k = 4 -> Num(n)
    [] k = 5 -> Num(n * Log2(n))
    [] k = 6 -> Num(n * Sqrt(n))
    [] k = 7 -> Num(n * n)
    [] k = 8 -> Num(n * n * Log2(n))
    [] k = 9 -> Num(n * n * n)
    [] k = 10 -> Num(2^Min(n, 30))
    [] k = 11 -> factorial(Min(n, 10))

\* array[index]: undefined outside the array, NaN once used in arithmetic.
At(array, index) ==
  IF index >= 0 /\ index < Len(array) THEN array[index + 1] ELSE NaN

calculateVariance(data) ==
  LET mean == Over(Sum(data), Num(Len(data)))
      squaredDiffs == [i \in 1..Len(data) |-> Square(Minus(data[i], mean))]
  IN  Over(Sum(squaredDiffs), Num(Len(data)))

\* [...data].sort((a, b) => a - b)
RECURSIVE SortAscending(_)
SortAscending(data) ==
  IF Len(data) <= 1 THEN data
  ELSE LET first == Head(data)
           rest == SortAscending(Tail(data))
           k == Cardinality({i \in 1..Len(rest) : Lt(rest[i], first)})
       IN  SubSeq(rest, 1, k) \o <<first>> \o SubSeq(rest, k + 1, Len(rest))

percentile(sorted, p) ==
  LET index == Times(Frac(p, 100), Num(Len(sorted) - 1))
  IN  IF Num(Floor(index)) = index THEN At(sorted, Floor(index))
      ELSE LET lower == At(sorted, Floor(index))
               upper == At(sorted, Ceil(index))
           IN  Plus(lower, Times(Minus(upper, lower), Minus(index, Num(Floor(index)))))

\* The indices (from 0) of the values outside [q1 - 1.5 iqr, q3 + 1.5 iqr].
detectOutliers(data) ==
  LET sorted == SortAscending(data)
      q1 == percentile(sorted, 25)
      q3 == percentile(sorted, 75)
      iqr == Minus(q3, q1)
      lowerBound == Minus(q1, Times(Frac(15, 10), iqr))
      upperBound == Plus(q3, Times(Frac(15, 10), iqr))
      marks == [i \in 1..Len(data) |->
                  IF Lt(data[i], lowerBound) \/ Gt(data[i], upperBound) THEN i - 1 ELSE -1]
  IN  SelectSeq(marks, LAMBDA index : index # -1)

calculateMonotonicity(times) ==
  LET increasingCount ==
        Cardinality({i \in 2..Len(times) :
                       Ge(times[i], times[i - 1])})
  IN  Over(Num(increasingCount), Num(Len(times) - 1))

assessDataQuality(sizes, times) ==
  [sampleSize |-> Len(sizes),
   variance |-> calculateVariance(times),
   outliers |-> detectOutliers(times),
   monotonicity |-> calculateMonotonicity(times)]

performLinearRegression(y, x) ==
  LET n == Num(Len(x))
      sumX == Sum(x)
      sumY == Sum(y)
      sumXY == Sum([i \in 1..Len(x) |-> Times(x[i], y[i])])
      sumXX == Sum([i \in 1..Len(x) |-> Times(x[i], x[i])])
      coefficient == Over(Minus(Times(n, sumXY), Times(sumX, sumY)),
                          Minus(Times(n, sumXX), Times(sumX, sumX)))
      meanY == Over(sumY, n)
      totalSumSquares == Sum([i \in 1..Len(y) |-> Square(Minus(y[i], meanY))])
      predictedValues == [i \in 1..Len(x) |-> Times(coefficient, x[i])]
      residualSumSquares ==
        Sum([i \in 1..Len(y) |-> Square(Minus(y[i], predictedValues[i]))])
      rSquared == IF Gt(totalSumSquares, Num(0))
                  THEN Minus(Num(1), Over(residualSumSquares, totalSumSquares))
                  ELSE Num(0)
  IN  [coefficient |-> IF isFinite(coefficient) THEN coefficient ELSE Num(0),
       rSquared |-> MathMax(Num(0), MathMin(Num(1), rSquared))]

\* The radicand of calculateStandardError.
calculateStandardErrorSquared(residuals, degreesOfFreedom) ==
  LET sumSquaredResiduals == Sum([i \in 1..Len(residuals) |-> Square(residuals[i])])
  IN  Over(sumSquaredResiduals, Num(degreesOfFreedom))

calculatePValue(rSquared, n) ==
  IF n <= 2 THEN Num(1)
  ELSE LET fStatistic == Times(Over(rSquared, Minus(Num(1), rSquared)), Num(n - 2))
       IN  IF Gt(fStatistic, Num(10)) THEN Frac(1, 1000)
           ELSE IF Gt(fStatistic, Num(5)) THEN Frac(1, 100)
           ELSE IF Gt(fStatistic, Num(2)) THEN Frac(5, 100)
           ELSE IF Gt(fStatistic, Num(1)) THEN Frac(1, 10)
           ELSE Frac(5, 10)

calculateConfidence(rSquared, standardErrorSquared, sampleSize) ==
  LET bySize == IF sampleSize < 5 THEN Times(rSquared, Frac(5, 10))
                ELSE IF sampleSize < 10 THEN Times(rSquared, Frac(7, 10))
                ELSE IF sampleSize >= 15 THEN Times(rSquared, Frac(11, 10))
                ELSE rSquared
      byError == IF Gt(standardErrorSquared, Num(1000 * 1000)) THEN Times(bySize, Frac(5, 10))
                 ELSE IF Gt(standardErrorSquared, Num(100 * 100)) THEN Times(bySize, Frac(7, 10))
                 ELSE IF Lt(standardErrorSquared, Num(10 * 10)) THEN Times(bySize, Frac(11, 10))
                 ELSE bySize
  IN  MathMax(Num(0), MathMin(Num(1), byError))

\* fitComplexity for complexityFunctions[k].
fitComplexity(k, sizes, times) ==
  LET predictedComplexity == [i \in 1..Len(sizes) |-> ComplexityFunc(k, sizes[i])]
  IN  IF \E i \in 1..Len(sizes) : ~isFinite(predictedComplexity[i])
      THEN [complexity |-> complexityFunctions[k],
            rSquared |-> Num(0),
            coefficient |-> Num(0),
            confidence |-> Num(0),
            standardErrorSquared |-> Infinity,
            pValue |-> Num(1),
            residuals |-> <<>>,
            predictedValues |-> <<>>]
      ELSE LET regression == performLinearRegression(times, predictedComplexity)
               predictedValues == [i \in 1..Len(sizes) |->
                                     Times(regression.coefficient, predictedComplexity[i])]
               residuals == [i \in 1..Len(times) |->
                               Minus(times[i], predictedValues[i])]
               standardErrorSquared ==
                 calculateStandardErrorSquared(residuals, Len(sizes) - 1)
           IN  [complexity |-> complexityFunctions[k],
                rSquared |-> regression.rSquared,
                coefficient |-> regression.coefficient,
                confidence |-> calculateConfidence(regression.rSquared, standardErrorSquared,
                                                   Len(sizes)),
                standardErrorSquared |-> standardErrorSquared,
                pValue |-> calculatePValue(regression.rSquared, Len(sizes)),
                residuals |-> residuals,
                predictedValues |-> predictedValues]

fitAllComplexities(sizes, times) ==
  [k \in 1..Len(complexityFunctions) |-> fitComplexity(k, sizes, times)]

calculateCompositeScore(fit) ==
  LET simplicityIndex == IndexOf(complexityFunctions, fit.complexity)
      simplicityScore ==
        IF simplicityIndex >= 0
        THEN Frac(Len(complexityFunctions) - simplicityIndex, Len(complexityFunctions))
        ELSE Num(0)
      pValueScore == MathMax(Num(0), Minus(Num(1), fit.pValue))
  IN  Plus(Plus(Plus(Times(Frac(4, 10), fit.rSquared),
                     Times(Frac(3, 10), fit.confidence)),
                Times(Frac(2, 10), simplicityScore)),
           Times(Frac(1, 10), pValueScore))

\* The valid fit with the highest composite score, the earliest one among
\* equals (the sort is stable); fits[0] if no fit is valid.
selectBestFit(fits) ==
  LET validFits == SelectSeq(fits, LAMBDA fit :
                     isFinite(fit.rSquared) /\ isFinite(fit.coefficient)
                       /\ Gt(fit.rSquared, Num(0)))
      score == [i \in 1..Len(validFits) |-> calculateCompositeScore(validFits[i])]
  IN  IF Len(validFits) = 0 THEN fits[1]
      ELSE validFits[CHOOSE i \in 1..Len(validFits) :
                       /\ \A j \in 1..Len(validFits) : ~Gt(score[j], score[i])
                       /\ \A j \in 1..(i - 1) : Gt(score[i], score[j])]

\* The sentences of generateRecommendation, without the figures they quote.
generateRecommendation(bestFit, dataQuality) ==
  <<IF Gt(bestFit.rSquared, Frac(9, 10)) THEN "Excellent fit"
    ELSE IF Gt(bestFit.rSquared, Frac(7, 10)) THEN "Good fit"
    ELSE IF Gt(bestFit.rSquared, Frac(5, 10)) THEN "Moderate fit"
    ELSE "Poor fit">>
  \o (IF dataQuality.sampleSize < 5 THEN <<"Small sample size">>
      ELSE IF dataQuality.sampleSize < 10 THEN <<"Consider collecting additional data points">>
      ELSE <<>>)
  \o (IF Gt(dataQuality.variance, Num(1000000)) THEN <<"High variance in measurements">>
      ELSE <<>>)
  \o (IF Len(dataQuality.outliers) > 0 THEN <<"outlier(s) detected">> ELSE <<>>)
  \o (IF Lt(dataQuality.monotonicity, Frac(7, 10)) THEN <<"Non-monotonic behavior detected">>
      ELSE <<>>)

assessReliability(bestFit, dataQuality) ==
  LET score ==
          (IF Gt(bestFit.rSquared, Frac(9, 10)) THEN 3
           ELSE IF Gt(bestFit.rSquared, Frac(7, 10)) THEN 2
           ELSE IF Gt(bestFit.rSquared, Frac(5, 10)) THEN 1 ELSE 0)
        + (IF dataQuality.sampleSize >= 10 THEN 2
           ELSE IF dataQuality.sampleSize >= 5 THEN 1 ELSE 0)
        + (IF Gt(dataQuality.monotonicity, Frac(8, 10)) THEN 2
           ELSE IF Gt(dataQuality.monotonicity, Frac(6, 10)) THEN 1 ELSE 0)
        + (IF Len(dataQuality.outliers) = 0 THEN 1
           ELSE IF Gt(Num(Len(dataQuality.outliers)),
                      Times(Num(dataQuality.sampleSize), Frac(2, 10))) THEN -1 ELSE 0)
        + (IF Lt(bestFit.pValue, Frac(1, 100)) THEN 2
           ELSE IF Lt(bestFit.pValue, Frac(5, 100)) THEN 1 ELSE 0)
  IN  IF score >= 7 THEN "high" ELSE IF score >= 4 THEN "medium" ELSE "low"

\* CurveFittingEngine.analyze() of an engine built on the two arrays.
CurveFittingEngine_analyze(sizes, times) ==
  LET Analysis(dataQuality, allFits, bestFit) ==
        [bestFit |-> bestFit,
         allFits |-> allFits,
         recommendation |-> generateRecommendation(bestFit, dataQuality),
         reliability |-> assessReliability(bestFit, dataQuality),
         dataQuality |-> dataQuality]
      WithBestFit(dataQuality, allFits) ==
        Analysis(dataQuality, allFits, selectBestFit(allFits))
  IN  WithBestFit(assessDataQuality(sizes, times), fitAllComplexities(sizes, times))

\* simplicityOrder of the curve-fitting engine: the classes it fits, from
\* the slowest growth to the fastest.
simplicityOrder ==
  <<O_1, O_logn, O_sqrtn, O_n, O_nlogn, O_nsqrtn, O_n2, O_n2logn, O_n3, O_2n, O_nfact>>

(***************************************************************************)
(* Structural parser: CppParser                                            *)
(*                                                                         *)
(* Line numbers count from 0 as in the source; LineAt reads a line.        *)
(***************************************************************************)

\* code.replace(/\/\*[\s\S]*?\*\//g, ''): a comment runs from the first opening
\* mark that has a closing mark after it to the first such closing mark; an
\* opening mark without one stays.
RECURSIVE RemoveBlockComments(_)
RemoveBlockComments(text) ==
  LET closes(p) == {q \in (p + 2)..Len(text) : OccursAt(text, <<"*", "/">>, q)}
      opens == {p \in 1..Len(text) : OccursAt(text, <<"/", "*">>, p) /\ closes(p) # {}}
  IN  IF opens = {} THEN text
      ELSE SubSeq(text, 1, First(opens) - 1)
             \o RemoveBlockComments(SubSeq(text, First(closes(First(opens))) + 2, Len(text)))

\* processed.replace(/\/\/.*$/gm, ''): from two slashes to the end of the
\* line, the line terminator kept.
RemoveLineComments(text) ==
  Select(text,
         [i \in 1..Len(text) |->
            ~\E j \in 1..i : /\ OccursAt(text, <<"/", "/">>, j)
                             /\ \A k \in j..i : text[k] \notin LineTerminators])

\* The position after the closing quote of a literal whose inside is read
\* from the position on, 0 if the literal is not closed: the inside is made
\* of characters other than the quote and the backslash and of a backslash
\* followed by a character that is no line terminator.
RECURSIVE LiteralEnd(_, _, _)
LiteralEnd(text, quote, position) ==
  IF position > Len(text) THEN 0
  ELSE IF text[position] = quote THEN position + 1
  ELSE IF text[position] = "\\"
  THEN IF position + 1 <= Len(text) /\ text[position + 1] \notin LineTerminators
       THEN LiteralEnd(text, quote, position + 2)
       ELSE 0
  ELSE LiteralEnd(text, quote, position + 1)

\* processed.replace(/"(?:[^"\\]|\\.)*"/g, '""') and the same for "'": each
\* closed literal, from left to right, becomes two quotes.
RECURSIVE ReplaceLiterals(_, _)
ReplaceLiterals(text, quote) ==
  LET opens == {p \in 1..Len(text) : text[p] = quote /\ LiteralEnd(text, quote, p + 1) # 0}
  IN  IF opens = {} THEN text
      ELSE SubSeq(text, 1, First(opens) - 1) \o <<quote, quote>>
             \o ReplaceLiterals(
                  SubSeq(text, LiteralEnd(text, quote, First(opens) + 1), Len(text)), quote)

\* processed.replace(/\s+/g, ' ')
NormalizeWhiteSpace(text) ==
  Select([i \in 1..Len(text) |-> IF text[i] \in WhiteSpace THEN " " ELSE text[i]],
         [i \in 1..Len(text) |->
            text[i] \notin WhiteSpace \/ i = 1 \/ text[i - 1] \notin WhiteSpace])

preprocessCode(text) ==
  NormalizeWhiteSpace(
    ReplaceLiterals(
      ReplaceLiterals(RemoveLineComments(RemoveBlockComments(text)), "\""), "'"))

\* this.lines[index]
LineAt(theLines, index) == theLines[index + 1]

\* A ComplexityInfo.
ComplexityInfo(timeComplexity, spaceComplexity, factors, confidence, isExact) ==
  [timeComplexity |-> timeComplexity,
   spaceComplexity |-> spaceComplexity,
   factors |-> factors,
   confidence |-> confidence,
   isExact |-> isExact]

\* An ASTNode without children; a metadata field the source leaves out is
\* the empty text, and isRecursive is FALSE.
ASTNode(type, name, complexity, lineStart, lineEnd) ==
  [type |-> type,
   name |-> name,
   children |-> <<>>,
   complexity |-> complexity,
   metadata |-> [lineStart |-> lineStart,
                 lineEnd |-> lineEnd,
                 loopType |-> <<>>,
                 functionType |-> <<>>,
                 isRecursive |-> FALSE,
                 iterationPattern |-> <<>>,
                 stlOperations |-> <<>>]]

\* [...new Set(values)]: the first occurrence of each value, in order.
Distinct(values) ==
  LET firsts == SelectSeq([i \in 1..Len(values) |-> i],
                          LAMBDA i : \A j \in 1..(i - 1) : values[j] # values[i])
  IN  [k \in 1..Len(firsts) |-> values[firsts[k]]]

\* The factors of all children, one after another.
RECURSIVE AllFactors(_)
AllFactors(children) ==
  IF Len(children) = 0 THEN <<>>
  ELSE Head(children).complexity.factors \o AllFactors(Tail(children))

\* The running maximum of the forEach loops: a class replaces the maximum
\* when isHigherComplexity says it is higher.
RECURSIVE MaxComplexity(_, _)
MaxComplexity(classes, maximum) ==
  IF Len(classes) = 0 THEN maximum
  ELSE MaxComplexity(Tail(classes),
                     IF isHigherComplexity(Head(classes), maximum)
                     THEN Head(classes) ELSE maximum)

\* The running Math.min of the children's confidences.
RECURSIVE MinConfidence(_, _)
MinConfidence(children, minimum) ==
  IF Len(children) = 0 THEN minimum
  ELSE MinConfidence(Tail(children), MathMin(minimum, Head(children).complexity.confidence))

TimeComplexities(children) ==
  [i \in 1..Len(children) |-> children[i].complexity.timeComplexity]

SpaceComplexities(children) ==
  [i \in 1..Len(children) |-> children[i].complexity.spaceComplexity]

calculateProgramComplexity(node) ==
  IF Len(node.children) = 0
  THEN ComplexityInfo(O_1, O_1, <<>>, Num(1), TRUE)
  ELSE ComplexityInfo(MaxComplexity(TimeComplexities(node.children), O_1),
                      MaxComplexity(SpaceComplexities(node.children), O_1),
                      Distinct(AllFactors(node.children)),
                      MinConfidence(node.children, Num(1)),
                      FALSE)

calculateRecursiveComplexity(node, theLines) ==
  LET \* this.lines.slice(lineStart, lineEnd + 1).join(' ')
      functionBody ==
        Join(SubSeq(theLines, node.metadata.lineStart + 1, node.metadata.lineEnd + 1))
      \* functionBody.match(new RegExp(node.name, 'g')).length - 1
      recursiveCalls == CountOccurrences(functionBody, node.name, 1) - 1
  IN  IF /\ recursiveCalls >= 2
         /\ \/ Includes(functionBody, <<"/", "2">>)
            \/ Includes(functionBody, <<">", ">", "1">>)
            \/ Includes(functionBody, <<"m", "i", "d">>)
      THEN IF Includes(functionBody, <<"m", "e", "r", "g", "e">>) \/ Includes(functionBody, <<"s", "o", "r", "t">>)
           THEN ComplexityInfo(O_nlogn, O_n,
                               <<<<"r", "e", "c", "u", "r", "s", "i", "v", "e">>, <<"d", "i", "v", "i", "d", "e", "-", "a", "n", "d", "-", "c", "o", "n", "q", "u", "e", "r">>, <<"m", "e", "r", "g", "e">>>>,
                               Frac(9, 10), FALSE)
           ELSE ComplexityInfo(O_logn, O_logn,
                               <<<<"r", "e", "c", "u", "r", "s", "i", "v", "e">>, <<"d", "i", "v", "i", "d", "e", "-", "a", "n", "d", "-", "c", "o", "n", "q", "u", "e", "r">>>>,
                               Frac(8, 10), FALSE)
      ELSE IF /\ recursiveCalls >= 2
              /\ \/ Includes(functionBody, <<"-", "1">>)
                 \/ Includes(functionBody, <<"n", "-", "1">>)
      THEN ComplexityInfo(O_2n, O_n, <<<<"r", "e", "c", "u", "r", "s", "i", "v", "e">>, <<"b", "i", "n", "a", "r", "y", "-", "t", "r", "e", "e">>>>,
                          Frac(9, 10), FALSE)
      ELSE IF recursiveCalls = 1
      THEN ComplexityInfo(O_n, O_n, <<<<"r", "e", "c", "u", "r", "s", "i", "v", "e">>, <<"l", "i", "n", "e", "a", "r">>>>, Frac(8, 10), FALSE)
      ELSE ComplexityInfo(O_2n, O_n, <<<<"r", "e", "c", "u", "r", "s", "i", "v", "e">>>>, Frac(6, 10), FALSE)

\* resultTime of calculateFunctionComplexity: a loop child multiplies, any
\* other child replaces the result when it is higher.
RECURSIVE FunctionTime(_, _)
FunctionTime(children, resultTime) ==
  IF Len(children) = 0 THEN resultTime
  ELSE LET child == Head(children)
       IN  FunctionTime(Tail(children),
             IF child.type = "loop"
             THEN multiplyComplexities(resultTime, child.complexity.timeComplexity)
             ELSE IF isHigherComplexity(child.complexity.timeComplexity, resultTime)
             THEN child.complexity.timeComplexity
             ELSE resultTime)

calculateFunctionComplexity(node, theLines) ==
  IF Len(node.children) = 0
  THEN ComplexityInfo(O_1, O_1, <<>>, Num(1), TRUE)
  ELSE IF node.metadata.isRecursive
  THEN calculateRecursiveComplexity(node, theLines)
  ELSE ComplexityInfo(FunctionTime(node.children, O_1),
                      MaxComplexity(SpaceComplexities(node.children), O_1),
                      Distinct(AllFactors(node.children)),
                      MinConfidence(node.children, Num(1)),
                      FALSE)

calculateLoopComplexity(node) ==
  LET pattern == node.metadata.iterationPattern
      baseTimeComplexity ==
        CASE pattern = <<"l", "o", "g", "a", "r", "i", "t", "h", "m", "i", "c">> -> O_logn
          [] pattern = <<"q", "u", "a", "d", "r", "a", "t", "i", "c">> -> O_n2
          [] pattern = <<"e", "x", "p", "o", "n", "e", "n", "t", "i", "a", "l">> -> O_2n
          [] OTHER -> O_n
      bodyComplexity == MaxComplexity(TimeComplexities(node.children), O_1)
  IN  ComplexityInfo(multiplyComplexities(baseTimeComplexity, bodyComplexity),
                     MaxComplexity(SpaceComplexities(node.children), O_1),
                     Distinct(AllFactors(node.children))
                       \o <<IF node.metadata.loopType # <<>> THEN node.metadata.loopType
                            ELSE <<"l", "o", "o", "p">>>>,
                     MinConfidence(node.children, Frac(8, 10)),
                     FALSE)

calculateConditionalComplexity(node) ==
  IF Len(node.children) = 0
  THEN ComplexityInfo(O_1, O_1, <<>>, Num(1), TRUE)
  ELSE ComplexityInfo(MaxComplexity(TimeComplexities(node.children), O_1),
                      MaxComplexity(SpaceComplexities(node.children), O_1),
                      Distinct(AllFactors(node.children)),
                      MinConfidence(node.children, Num(1)),
                      FALSE)

\* The type names of a function declaration.
FunctionTypes ==
    <<<<Lit(<<"v", "o", "i", "d">>)>>, <<Lit(<<"i", "n", "t">>)>>, <<Lit(<<"f", "l",
    "o", "a", "t">>)>>, <<Lit(<<"d", "o", "u", "b", "l", "e">>)>>, <<Lit(<<"c", "h",
    "a", "r">>)>>, <<Lit(<<"s", "t", "r", "i", "n", "g">>)>>, <<Lit(<<"b", "o", "o",
    "l">>)>>, <<Lit(<<"v", "e", "c", "t", "o", "r", "<">>), Star(Dot), Lit(<<">">>)>>,
    <<Lit(<<"l", "i", "s", "t", "<">>), Star(Dot), Lit(<<">">>)>>, <<Lit(<<"s", "e",
    "t", "<">>), Star(Dot), Lit(<<">">>)>>, <<Lit(<<"m", "a", "p", "<">>), Star(Dot),
    Lit(<<">">>)>>>>

\* The patterns of isFunctionDeclaration.
FunctionDeclarationPatterns ==
  <<
    <<<<Bol, Star(Space), Group(<<<<Lit(<<"v", "o", "i", "d">>)>>, <<Lit(<<"i", "n",
    "t">>)>>, <<Lit(<<"f", "l", "o", "a", "t">>)>>, <<Lit(<<"d", "o", "u", "b", "l",
    "e">>)>>, <<Lit(<<"c", "h", "a", "r">>)>>, <<Lit(<<"s", "t", "r", "i", "n",
    "g">>)>>, <<Lit(<<"b", "o", "o", "l">>)>>, <<Lit(<<"v", "e", "c", "t", "o", "r",
    "<">>), Star(Dot), Lit(<<">">>)>>, <<Lit(<<"l", "i", "s", "t", "<">>), Star(Dot),
    Lit(<<">">>)>>, <<Lit(<<"s", "e", "t", "<">>), Star(Dot), Lit(<<">">>)>>,
    <<Lit(<<"m", "a", "p", "<">>), Star(Dot), Lit(<<">">>)>>>>), Many(Space),
    Many(Word), Star(Space), Lit(<<"(">>)>>>>,
    <<<<Bol, Star(Space), Lit(<<"t", "e", "m", "p", "l", "a", "t", "e">>), Star(Space),
    Lit(<<"<">>), Star(Dot), Lit(<<">">>), Star(Space), Group(<<<<Lit(<<"v", "o", "i",
    "d">>)>>, <<Lit(<<"i", "n", "t">>)>>, <<Lit(<<"f", "l", "o", "a", "t">>)>>,
    <<Lit(<<"d", "o", "u", "b", "l", "e">>)>>, <<Lit(<<"c", "h", "a", "r">>)>>,
    <<Lit(<<"s", "t", "r", "i", "n", "g">>)>>, <<Lit(<<"b", "o", "o", "l">>)>>,
    <<Lit(<<"v", "e", "c", "t", "o", "r", "<">>), Star(Dot), Lit(<<">">>)>>>>),
    Many(Space), Many(Word), Star(Space), Lit(<<"(">>)>>>>,
    <<<<Bol, Star(Space), OptGroup(<<<<Lit(<<"i", "n", "l", "i", "n", "e">>)>>,
    <<Lit(<<"s", "t", "a", "t", "i", "c">>)>>, <<Lit(<<"c", "o", "n", "s", "t">>)>>,
    <<Lit(<<"v", "i", "r", "t", "u", "a", "l">>)>>>>), Star(Space),
    Group(<<<<Lit(<<"v", "o", "i", "d">>)>>, <<Lit(<<"i", "n", "t">>)>>, <<Lit(<<"f",
    "l", "o", "a", "t">>)>>, <<Lit(<<"d", "o", "u", "b", "l", "e">>)>>, <<Lit(<<"c",
    "h", "a", "r">>)>>, <<Lit(<<"s", "t", "r", "i", "n", "g">>)>>, <<Lit(<<"b", "o",
    "o", "l">>)>>, <<Lit(<<"v", "e", "c", "t", "o", "r", "<">>), Star(Dot),
    Lit(<<">">>)>>>>), Many(Space), Many(Word), Star(Space), Lit(<<"(">>)>>>>
  >>

isFunctionDeclaration(line) ==
  \E k \in 1..Len(FunctionDeclarationPatterns) : Test(FunctionDeclarationPatterns[k], line)

\* What follows the type in funcMatch: \s+(\w+)\s*\(
NameAndParenthesis ==
    <<<<Many(Space), Many(Word), Star(Space), Lit(<<"(">>)>>>>

\* line.match(/(?:void|...|map<.*?>)\s+(\w+)\s*\(/)?.[1] || 'unknown': the
\* leftmost match, its type as short as the rest of the pattern allows, the
\* name the run of word characters after the white space.
FunctionNameOf(line) ==
  LET starts == {p \in MatchStarts(FunctionTypes, line) :
                   MatchEnds(NameAndParenthesis, line, MatchEnds(FunctionTypes, line, {p})) # {}}
  IN  IF starts = {} THEN <<"u", "n", "k", "n", "o", "w", "n">>
      ELSE LET typeEnd == First({e \in MatchEnds(FunctionTypes, line, {First(starts)}) :
                                   MatchEnds(NameAndParenthesis, line, {e}) # {}})
               nameStart == typeEnd + RunLength(Space, line, typeEnd)
           IN  SubSeq(line, nameStart, nameStart + RunLength(Word, line, nameStart) - 1)

\* line.match(/(void|...|map<.*?>)/)?.[1] || 'void': the leftmost type name,
\* a template type as short as possible.
ReturnTypeOf(line) ==
  LET starts == MatchStarts(FunctionTypes, line)
  IN  IF starts = {} THEN <<"v", "o", "i", "d">>
      ELSE SubSeq(line, First(starts),
                  First(MatchEnds(FunctionTypes, line, {First(starts)})) - 1)

findNextOpenBrace(theLines, current) ==
  LET found == {i \in current..(Len(theLines) - 1) : Includes(LineAt(theLines, i), <<"{">>)}
  IN  IF found = {} THEN -1 ELSE First(found)

\* (line.match(/{/g) || []).length and the same for '}'
CountChar(line, char) == Cardinality({i \in 1..Len(line) : line[i] = char})

\* braceCount after the lines current..i have been counted.
RECURSIVE BraceCount(_, _, _)
BraceCount(theLines, current, i) ==
  IF i < current THEN 0
  ELSE BraceCount(theLines, current, i - 1)
         + CountChar(LineAt(theLines, i), "{") - CountChar(LineAt(theLines, i), "}")

\* findMatchingCloseBrace that reports no line when no brace closes.
findMatchingCloseBrace_NoDefault(theLines, current) ==
  LET closed == {i \in current..(Len(theLines) - 1) :
                   /\ \E j \in current..i : CountChar(LineAt(theLines, j), "{") > 0
                   /\ BraceCount(theLines, current, i) = 0}
  IN  IF closed = {} THEN -1 ELSE First(closed)

findMatchingCloseBrace(theLines, current) ==
  LET closed == {i \in current..(Len(theLines) - 1) :
                   /\ \E j \in current..i : CountChar(LineAt(theLines, j), "{") > 0
                   /\ BraceCount(theLines, current, i) = 0}
  IN  IF closed = {} THEN Len(theLines) - 1 ELSE First(closed)

\* `${functionName}(` occurs in one of the lines startLine..endLine.
checkRecursion(theLines, functionName, startLine, endLine) ==
  \E i \in startLine..endLine :
    /\ i >= 0
    /\ i < Len(theLines)
    /\ Len(LineAt(theLines, i)) > 0
    /\ Includes(LineAt(theLines, i), functionName \o <<"(">>)

isLoopStatement(line) ==
  \/ Test(
      <<<<Bol, Star(Space), Group(<<<<Lit(<<"f", "o", "r">>)>>, <<Lit(<<"w", "h", "i",
      "l", "e">>)>>, <<Lit(<<"d", "o">>)>>>>), Star(Space), One(In({"(", "{"}))>>>>,
       line)
  \/ Test(
      <<<<Bol, Star(Space), Lit(<<"f", "o", "r">>), Star(Space), Lit(<<"(">>),
      Star(Space), Many(Word), Star(Space), Lit(<<":">>), Star(Space), Many(Word),
      Star(Space), Lit(<<")">>)>>>>,
       line)

analyzeForLoopPattern(line) ==
  LET nestedOverN ==
        Test(
          <<<<Lit(<<"i">>), Star(Space), Lit(<<"<">>), Star(Space), Lit(<<"n">>),
          Star(Dot), Lit(<<"j">>), Star(Space), Lit(<<"<">>), Star(Space),
          Lit(<<"n">>)>>>>,
          line)
      nestedOverSize ==
        Test(
          <<<<Lit(<<"i">>), Star(Space), Lit(<<"<">>), Star(Space), Lit(<<"s", "i",
          "z", "e">>), Star(Dot), Lit(<<"j">>), Star(Space), Lit(<<"<">>), Star(Space),
          Lit(<<"s", "i", "z", "e">>)>>>>,
          line)
      multiplicativeStep ==
        Test(
          <<<<Lit(<<"i">>), Star(Space), Lit(<<"*", "=">>), Star(Space),
          Lit(<<"2">>)>>, <<Lit(<<"i">>), Star(Space), Lit(<<"<", "<", "=">>),
          Star(Space), Lit(<<"1">>)>>, <<Lit(<<"i">>), Star(Space), Lit(<<"/", "=">>),
          Star(Space), Lit(<<"2">>)>>, <<Lit(<<"i">>), Star(Space), Lit(<<">", ">",
          "=">>), Star(Space), Lit(<<"1">>)>>>>,
          line)
      exponentialStep ==
        Test(
          <<<<Lit(<<"i">>), Star(Space), Lit(<<"=">>), Star(Space), Lit(<<"p", "o",
          "w">>)>>, <<Lit(<<"i">>), Star(Space), Lit(<<"*">>), Star(Space),
          Lit(<<"i">>)>>>>,
          line)
  IN  IF nestedOverN \/ nestedOverSize THEN <<"q", "u", "a", "d", "r", "a", "t", "i", "c">>
      ELSE IF multiplicativeStep THEN <<"l", "o", "g", "a", "r", "i", "t", "h", "m", "i", "c">>
      ELSE IF exponentialStep THEN <<"e", "x", "p", "o", "n", "e", "n", "t", "i", "a", "l">>
      ELSE <<"l", "i", "n", "e", "a", "r">>

analyzeWhileLoopPattern(line) ==
  LET binarySearchBounds ==
        Test(
          <<<<Lit(<<"l", "e", "f", "t">>), Star(Space), Lit(<<"<">>), Opt(In({"="})),
          Star(Space), Lit(<<"r", "i", "g", "h", "t">>)>>, <<Lit(<<"l", "o", "w">>),
          Star(Space), Lit(<<"<">>), Opt(In({"="})), Star(Space), Lit(<<"h", "i", "g",
          "h">>)>>>>,
          line)
      listTraversal ==
        Test(
          <<<<Lit(<<"p", "t", "r">>), Star(Space), Lit(<<"!", "=">>), Star(Space),
          Lit(<<"n", "u", "l", "l">>)>>, <<Lit(<<"n", "o", "d", "e">>), Star(Space),
          Lit(<<"!", "=">>), Star(Space), Lit(<<"n", "u", "l", "l">>)>>, <<Lit(<<"n",
          "e", "x", "t">>)>>>>,
          line)
  IN  IF binarySearchBounds THEN <<"l", "o", "g", "a", "r", "i", "t", "h", "m", "i", "c">>
      ELSE IF listTraversal THEN <<"l", "i", "n", "e", "a", "r">>
      ELSE <<"u", "n", "k", "n", "o", "w", "n">>

\* loopType and iterationPattern of parseLoop.
LoopKind(line) ==
  IF Includes(line, <<"f", "o", "r", " ", "(">>)
  THEN IF Includes(line, <<":">>)
       THEN [loopType |-> <<"r", "a", "n", "g", "e", "-", "b", "a", "s", "e", "d">>, iterationPattern |-> <<"l", "i", "n", "e", "a", "r">>]
       ELSE [loopType |-> <<"f", "o", "r">>, iterationPattern |-> analyzeForLoopPattern(line)]
  ELSE IF Includes(line, <<"w", "h", "i", "l", "e">>)
  THEN [loopType |-> <<"w", "h", "i", "l", "e">>, iterationPattern |-> analyzeWhileLoopPattern(line)]
  ELSE IF Includes(line, <<"d", "o">>)
  THEN [loopType |-> <<"d", "o", "-", "w", "h", "i", "l", "e">>, iterationPattern |-> <<"u", "n", "k", "n", "o", "w", "n">>]
  ELSE [loopType |-> <<"f", "o", "r">>, iterationPattern |-> <<>>]

isConditionalStatement(line) ==
  \/ Test(
      <<<<Bol, Star(Space), Lit(<<"i", "f">>), Star(Space), Lit(<<"(">>)>>>>,
       line)
  \/ Test(
      <<<<Bol, Star(Space), Lit(<<"e", "l", "s", "e">>)>>>>,
       line)
  \/ Test(
      <<<<Bol, Star(Space), Lit(<<"s", "w", "i", "t", "c", "h">>), Star(Space),
      Lit(<<"(">>)>>>>,
       line)

\* The type names of a variable declaration.
VariableTypes ==
    <<<<Lit(<<"i", "n", "t">>)>>, <<Lit(<<"f", "l", "o", "a", "t">>)>>, <<Lit(<<"d",
    "o", "u", "b", "l", "e">>)>>, <<Lit(<<"c", "h", "a", "r">>)>>, <<Lit(<<"s", "t",
    "r", "i", "n", "g">>)>>, <<Lit(<<"b", "o", "o", "l">>)>>, <<Lit(<<"v", "e", "c",
    "t", "o", "r", "<">>), Star(Dot), Lit(<<">">>)>>, <<Lit(<<"l", "i", "s", "t",
    "<">>), Star(Dot), Lit(<<">">>)>>, <<Lit(<<"s", "e", "t", "<">>), Star(Dot),
    Lit(<<">">>)>>, <<Lit(<<"m", "a", "p", "<">>), Star(Dot), Lit(<<">">>)>>,
    <<Lit(<<"q", "u", "e", "u", "e", "<">>), Star(Dot), Lit(<<">">>)>>, <<Lit(<<"s",
    "t", "a", "c", "k", "<">>), Star(Dot), Lit(<<">">>)>>, <<Lit(<<"p", "r", "i", "o",
    "r", "i", "t", "y", "_", "q", "u", "e", "u", "e", "<">>), Star(Dot),
    Lit(<<">">>)>>>>

isVariableDeclaration(line) ==
  Test(
      <<<<Bol, Star(Space), Group(<<<<Lit(<<"i", "n", "t">>)>>, <<Lit(<<"f", "l", "o",
      "a", "t">>)>>, <<Lit(<<"d", "o", "u", "b", "l", "e">>)>>, <<Lit(<<"c", "h", "a",
      "r">>)>>, <<Lit(<<"s", "t", "r", "i", "n", "g">>)>>, <<Lit(<<"b", "o", "o",
      "l">>)>>, <<Lit(<<"v", "e", "c", "t", "o", "r", "<">>), Star(Dot),
      Lit(<<">">>)>>, <<Lit(<<"l", "i", "s", "t", "<">>), Star(Dot), Lit(<<">">>)>>,
      <<Lit(<<"s", "e", "t", "<">>), Star(Dot), Lit(<<">">>)>>, <<Lit(<<"m", "a", "p",
      "<">>), Star(Dot), Lit(<<">">>)>>, <<Lit(<<"q", "u", "e", "u", "e", "<">>),
      Star(Dot), Lit(<<">">>)>>, <<Lit(<<"s", "t", "a", "c", "k", "<">>), Star(Dot),
      Lit(<<">">>)>>, <<Lit(<<"p", "r", "i", "o", "r", "i", "t", "y", "_", "q", "u",
      "e", "u", "e", "<">>), Star(Dot), Lit(<<">">>)>>>>), Many(Space), Many(Word)>>>>,
       line)

\* What follows the type in varMatch: \s+(\w+)
VariableName ==
    <<<<Many(Space), Many(Word)>>>>

getSTLSpaceComplexity(type) ==
  IF \/ Includes(type, <<"v", "e", "c", "t", "o", "r">>) \/ Includes(type, <<"l", "i", "s", "t">>) \/ Includes(type, <<"d", "e", "q", "u", "e">>)
     \/ Includes(type, <<"s", "e", "t">>) \/ Includes(type, <<"m", "a", "p">>)
     \/ Includes(type, <<"m", "u", "l", "t", "i", "s", "e", "t">>) \/ Includes(type, <<"m", "u", "l", "t", "i", "m", "a", "p">>)
     \/ Includes(type, <<"u", "n", "o", "r", "d", "e", "r", "e", "d", "_", "s", "e", "t">>) \/ Includes(type, <<"u", "n", "o", "r", "d", "e", "r", "e", "d", "_", "m", "a", "p">>)
     \/ Includes(type, <<"q", "u", "e", "u", "e">>) \/ Includes(type, <<"s", "t", "a", "c", "k">>)
     \/ Includes(type, <<"p", "r", "i", "o", "r", "i", "t", "y", "_", "q", "u", "e", "u", "e">>)
  THEN O_n
  ELSE O_1

\* varMatch of a line isVariableDeclaration accepts: the type after the
\* leading white space, as short as the rest of the pattern allows, and the
\* run of word characters after the white space that follows it.
parseVariableDeclaration(line, current) ==
  LET typeStart == 1 + RunLength(Space, line, 1)
      typeEnd == First({e \in MatchEnds(VariableTypes, line, {typeStart}) :
                          MatchEnds(VariableName, line, {e}) # {}})
      varType == SubSeq(line, typeStart, typeEnd - 1)
      nameStart == typeEnd + RunLength(Space, line, typeEnd)
      varName == SubSeq(line, nameStart, nameStart + RunLength(Word, line, nameStart) - 1)
  IN  ASTNode("variable", varName,
              ComplexityInfo(O_1, getSTLSpaceComplexity(varType), <<varType>>, Num(1), TRUE),
              current, current)

isFunctionCall(line) ==
  /\ Test(
      <<<<Many(Word), Star(Space), Lit(<<"(">>), Star(NotIn({")"})), Lit(<<")">>)>>>>,
       line)
  /\ ~isFunctionDeclaration(line)

\* /(\w+)\s*\(/
CalledName ==
    <<<<Many(Word), Star(Space), Lit(<<"(">>)>>>>

\* line.match(/(\w+)\s*\(/)?.[1] || 'unknown'
CalledNameOf(line) ==
  LET starts == MatchStarts(CalledName, line)
  IN  IF starts = {} THEN <<"u", "n", "k", "n", "o", "w", "n">>
      ELSE SubSeq(line, First(starts), First(starts) + RunLength(Word, line, First(starts)) - 1)

\* The operation names detectSTLOperations looks for.
stlOperationNames ==
  <<<<"p", "u", "s", "h", "_", "b", "a", "c", "k">>, <<"p", "u", "s", "h", "_", "f", "r", "o", "n", "t">>, <<"p", "o", "p", "_", "b", "a", "c", "k">>, <<"p", "o", "p", "_", "f", "r", "o", "n", "t">>,
    <<"i", "n", "s", "e", "r", "t">>, <<"e", "r", "a", "s", "e">>, <<"f", "i", "n", "d">>,
    <<"s", "o", "r", "t">>, <<"s", "t", "a", "b", "l", "e", "_", "s", "o", "r", "t">>, <<"p", "a", "r", "t", "i", "a", "l", "_", "s", "o", "r", "t">>, <<"n", "t", "h", "_", "e", "l", "e", "m", "e", "n", "t">>,
    <<"r", "e", "v", "e", "r", "s", "e">>, <<"r", "o", "t", "a", "t", "e">>,
    <<"b", "i", "n", "a", "r", "y", "_", "s", "e", "a", "r", "c", "h">>, <<"l", "o", "w", "e", "r", "_", "b", "o", "u", "n", "d">>, <<"u", "p", "p", "e", "r", "_", "b", "o", "u", "n", "d">>, <<"e", "q", "u", "a", "l", "_", "r", "a", "n", "g", "e">>,
    <<"m", "a", "k", "e", "_", "h", "e", "a", "p">>, <<"p", "u", "s", "h", "_", "h", "e", "a", "p">>, <<"p", "o", "p", "_", "h", "e", "a", "p">>, <<"s", "o", "r", "t", "_", "h", "e", "a", "p">>,
    <<"b", "e", "g", "i", "n">>, <<"e", "n", "d">>, <<"s", "i", "z", "e">>, <<"e", "m", "p", "t", "y">>, <<"c", "l", "e", "a", "r">>, <<"r", "e", "s", "i", "z", "e">>>>

detectSTLOperations(line) ==
  SelectSeq(stlOperationNames, LAMBDA op : Includes(line, op))

\* The stlComplexities table: name, time, space, confidence.
stlComplexities ==
  <<<<<<"p", "u", "s", "h", "_", "b", "a", "c", "k">>, O_1, O_1, Frac(9, 10)>>,
    <<<<"p", "u", "s", "h", "_", "f", "r", "o", "n", "t">>, O_1, O_1, Frac(9, 10)>>,
    <<<<"p", "o", "p", "_", "b", "a", "c", "k">>, O_1, O_1, Num(1)>>,
    <<<<"p", "o", "p", "_", "f", "r", "o", "n", "t">>, O_1, O_1, Num(1)>>,
    <<<<"i", "n", "s", "e", "r", "t">>, O_n, O_1, Frac(8, 10)>>,
    <<<<"e", "r", "a", "s", "e">>, O_n, O_1, Frac(8, 10)>>,
    <<<<"f", "i", "n", "d">>, O_n, O_1, Frac(9, 10)>>,
    <<<<"s", "o", "r", "t">>, O_nlogn, O_logn, Num(1)>>,
    <<<<"s", "t", "a", "b", "l", "e", "_", "s", "o", "r", "t">>, O_nlogn, O_n, Num(1)>>,
    <<<<"b", "i", "n", "a", "r", "y", "_", "s", "e", "a", "r", "c", "h">>, O_logn, O_1, Num(1)>>,
    <<<<"l", "o", "w", "e", "r", "_", "b", "o", "u", "n", "d">>, O_logn, O_1, Num(1)>>,
    <<<<"u", "p", "p", "e", "r", "_", "b", "o", "u", "n", "d">>, O_logn, O_1, Num(1)>>,
    <<<<"m", "a", "k", "e", "_", "h", "e", "a", "p">>, O_n, O_1, Num(1)>>,
    <<<<"p", "u", "s", "h", "_", "h", "e", "a", "p">>, O_logn, O_1, Num(1)>>,
    <<<<"p", "o", "p", "_", "h", "e", "a", "p">>, O_logn, O_1, Num(1)>>,
    <<<<"r", "e", "v", "e", "r", "s", "e">>, O_n, O_1, Num(1)>>,
    <<<<"r", "o", "t", "a", "t", "e">>, O_n, O_1, Num(1)>>>>

\* The table is looked up by its own keys; names every object inherits
\* ('constructor', 'toString', ...) are not among the calls modelled.
getSTLOperationComplexity(functionName) ==
  IF \E k \in 1..Len(stlComplexities) : stlComplexities[k][1] = functionName
  THEN LET complexity ==
             stlComplexities[CHOOSE k \in 1..Len(stlComplexities) :
                               stlComplexities[k][1] = functionName]
       IN  ComplexityInfo(complexity[2], complexity[3], <<functionName>>, complexity[4], TRUE)
  ELSE ComplexityInfo(O_1, O_1, <<functionName>>, Frac(5, 10), FALSE)

parseFunctionCall(line, current) ==
  LET functionName == CalledNameOf(line)
      node == ASTNode("call", functionName, getSTLOperationComplexity(functionName),
                      current, current)
  IN  [node EXCEPT !.metadata.stlOperations = detectSTLOperations(line)]

parseReturnStatement(current) ==
  ASTNode("return", <<>>, ComplexityInfo(O_1, O_1, <<>>, Num(1), TRUE), current, current)

\* parseStatement and the body loops of parseFunction, parseLoop and
\* parseConditional call one another.  Each yields the node parsed (an empty
\* slot for null) or the children collected, and the value of currentLine
\* when it returns.
RECURSIVE parseStatement(_, _)
RECURSIVE ParseBody(_, _, _, _)

\* while (this.currentLine < bodyEnd) { parseStatement(); currentLine++ }
ParseBody(theLines, current, bodyEnd, children) ==
  IF current < bodyEnd
  THEN LET Continue(statement) ==
             ParseBody(theLines, statement.currentLine + 1, bodyEnd,
                       children \o statement.node)
       IN  Continue(parseStatement(theLines, current))
  ELSE [children |-> children, currentLine |-> current]

parseFunction(theLines, current) ==
  LET line == LineAt(theLines, current)
      functionName == FunctionNameOf(line)
      functionNode ==
        [ASTNode("function", functionName,
                 ComplexityInfo(O_1, O_1, <<>>, Num(1), FALSE), current, current)
           EXCEPT !.metadata.functionType = ReturnTypeOf(line)]
      bodyStart == findNextOpenBrace(theLines, current)
  IN  IF bodyStart = -1 THEN [node |-> <<functionNode>>, currentLine |-> current]
      ELSE LET bodyEnd == findMatchingCloseBrace(theLines, bodyStart)
               body == ParseBody(theLines, bodyStart + 1, bodyEnd, <<>>)
               withBody ==
                 [functionNode EXCEPT
                    !.metadata.lineEnd = bodyEnd,
                    !.children = body.children,
                    !.metadata.isRecursive =
                       checkRecursion(theLines, functionName, bodyStart, bodyEnd)]
           IN  [node |-> <<[withBody EXCEPT
                              !.complexity = calculateFunctionComplexity(withBody, theLines)]>>,
                currentLine |-> body.currentLine]

parseLoop(theLines, current) ==
  LET line == LineAt(theLines, current)
      kind == LoopKind(line)
      loopNode ==
        [ASTNode("loop", <<>>, ComplexityInfo(O_n, O_1, <<>>, Frac(8, 10), FALSE),
                 current, current)
           EXCEPT !.metadata.loopType = kind.loopType,
                  !.metadata.iterationPattern = kind.iterationPattern]
      bodyStart == findNextOpenBrace(theLines, current)
  IN  IF bodyStart = -1 THEN [node |-> <<loopNode>>, currentLine |-> current]
      ELSE LET bodyEnd == findMatchingCloseBrace(theLines, bodyStart)
               body == ParseBody(theLines, bodyStart + 1, bodyEnd, <<>>)
               withBody == [loopNode EXCEPT !.metadata.lineEnd = bodyEnd,
                                            !.children = body.children]
           IN  [node |-> <<[withBody EXCEPT
                              !.complexity = calculateLoopComplexity(withBody)]>>,
                currentLine |-> body.currentLine]

parseConditional(theLines, current) ==
  LET conditionalNode ==
        ASTNode("conditional", <<>>, ComplexityInfo(O_1, O_1, <<>>, Frac(9, 10), FALSE),
                current, current)
      bodyStart == findNextOpenBrace(theLines, current)
  IN  IF bodyStart = -1 THEN [node |-> <<conditionalNode>>, currentLine |-> current]
      ELSE LET bodyEnd == findMatchingCloseBrace(theLines, bodyStart)
               body == ParseBody(theLines, bodyStart + 1, bodyEnd, <<>>)
               withBody == [conditionalNode EXCEPT !.metadata.lineEnd = bodyEnd,
                                                   !.children = body.children]
           IN  [node |-> <<[withBody EXCEPT
                              !.complexity = calculateConditionalComplexity(withBody)]>>,
                currentLine |-> body.currentLine]

parseStatement(theLines, current) ==
  LET line == IF current < Len(theLines) THEN Trim(LineAt(theLines, current)) ELSE <<>>
  IN  IF Len(line) = 0 THEN [node |-> <<>>, currentLine |-> current]
      ELSE IF isFunctionDeclaration(line) THEN parseFunction(theLines, current)
      ELSE IF isLoopStatement(line) THEN parseLoop(theLines, current)
      ELSE IF isConditionalStatement(line) THEN parseConditional(theLines, current)
      ELSE IF isVariableDeclaration(line)
      THEN [node |-> <<parseVariableDeclaration(line, current)>>, currentLine |-> current]
      ELSE IF isFunctionCall(line)
      THEN [node |-> <<parseFunctionCall(line, current)>>, currentLine |-> current]
      ELSE IF StartsWith(line, <<"r", "e", "t", "u", "r", "n">>)
      THEN [node |-> <<parseReturnStatement(current)>>, currentLine |-> current]
      ELSE [node |-> <<>>, currentLine |-> current]

\* The root node parse() starts from.
ProgramRoot(theLines) ==
  ASTNode("program", <<>>, ComplexityInfo(O_1, O_1, <<>>, Num(1), FALSE),
          0, Len(theLines) - 1)

\* The loop of parse(): the statements of the lines become the children of
\* the root.
ParsedRoot(theLines) ==
  [ProgramRoot(theLines) EXCEPT
     !.children = ParseBody(theLines, 0, Len(theLines), <<>>).children]

\* The end of parse(): root.complexity = calculateProgramComplexity(root).
CompletedRoot(root) == [root EXCEPT !.complexity = calculateProgramComplexity(root)]

\* parse() of a parser built on the code: the lines are parsed one statement
\* after another, then the complexity of the root is calculated.
parse(text) == CompletedRoot(ParsedRoot(Split(preprocessCode(text))))

(***************************************************************************)
(* Static analyzer: StaticComplexityAnalyzer                               *)
(*                                                                         *)
(* The pattern predicates read the analyzer's own lower-cased copy of the  *)
(* code as handed in, with its line breaks; the tree comes from the parser.*)
(* Names, descriptions, evidence and factors of the catalogue are fixed    *)
(* words and stay strings; classes are texts.                              *)
(***************************************************************************)

\* traverseAST: the nodes in the order the callback sees them, each with its
\* depth.
RECURSIVE traverseAST(_, _)
RECURSIVE TraverseChildren(_, _)

TraverseChildren(children, depth) ==
  IF Len(children) = 0 THEN <<>>
  ELSE traverseAST(Head(children), depth) \o TraverseChildren(Tail(children), depth)

traverseAST(node, depth) ==
  <<[node |-> node, depth |-> depth]>> \o TraverseChildren(node.children, depth + 1)

\* The recursion type; the empty text stands for undefined.
determineRecursionType(node, theLines) ==
  IF ~node.metadata.isRecursive THEN <<>>
  ELSE LET \* this.lines.slice(lineStart, lineEnd + 1).join(' ')
           functionBody ==
             Join(SubSeq(theLines, node.metadata.lineStart + 1,
                         Min(node.metadata.lineEnd + 1, Len(theLines))))
           recursiveCalls == CountOccurrences(functionBody, node.name, 1) - 1
       IN  IF /\ recursiveCalls >= 2
              /\ Includes(functionBody, <<"/", "2">>) \/ Includes(functionBody, <<"m", "i", "d">>)
           THEN <<"d", "i", "v", "i", "d", "e", "-", "c", "o", "n", "q", "u", "e", "r">>
           ELSE IF recursiveCalls >= 2 THEN <<"b", "i", "n", "a", "r", "y", "-", "t", "r", "e", "e">>
           ELSE IF recursiveCalls = 1 THEN <<"l", "i", "n", "e", "a", "r">>
           ELSE <<"u", "n", "k", "n", "o", "w", "n">>

\* new RegExp(`\\b${functionName}\\s*\\(`, 'g')
CallPattern(functionName) ==
  <<<<WordBoundary, Lit(functionName), Star(Space), Lit(<<"(">>)>>>>

countFunctionCalls(text, functionName) ==
  Cardinality(MatchStarts(CallPattern(functionName), text))

analyzeFunctions(text, root) ==
  LET visited == SelectSeq(traverseAST(root, 0),
                           LAMBDA v : v.node.type = "function" /\ Len(v.node.name) > 0)
  IN  [k \in 1..Len(visited) |->
         LET node == visited[k].node
         IN  [name |-> node.name,
              complexity |-> node.complexity,
              isRecursive |-> node.metadata.isRecursive,
              recursionType |-> determineRecursionType(node, Split(text)),
              callCount |-> countFunctionCalls(text, node.name),
              lineRange |-> [start |-> node.metadata.lineStart,
                             end |-> node.metadata.lineEnd]]]

calculateBodyComplexity(node) ==
  IF Len(node.children) = 0
  THEN ComplexityInfo(O_1, O_1, <<>>, Num(1), TRUE)
  ELSE ComplexityInfo(MaxComplexity(TimeComplexities(node.children), O_1),
                      MaxComplexity(SpaceComplexities(node.children), O_1),
                      Distinct(AllFactors(node.children)),
                      MinConfidence(node.children, Num(1)),
                      FALSE)

analyzeLoops(root) ==
  LET visited == SelectSeq(traverseAST(root, 0), LAMBDA v : v.node.type = "loop")
  IN  [k \in 1..Len(visited) |->
         LET node == visited[k].node
         IN  [type |-> node.metadata.loopType,
              complexity |-> node.complexity,
              nestingLevel |-> visited[k].depth,
              iterationPattern |-> IF Len(node.metadata.iterationPattern) > 0
                                   THEN node.metadata.iterationPattern
                                   ELSE <<"u", "n", "k", "n", "o", "w", "n">>,
              bodyComplexity |-> calculateBodyComplexity(node),
              lineRange |-> [start |-> node.metadata.lineStart,
                             end |-> node.metadata.lineEnd]]]

isMergeSort(text) ==
  LET lower == ToLowerCase(text)
      hasMerge ==
        Test(
          <<<<Lit(<<"m", "e", "r", "g", "e">>), Star(Space), Lit(<<"(">>)>>>>,
          lower)
      hasDivision ==
        Test(
          <<<<Lit(<<"m", "i", "d">>), Star(Space), Lit(<<"=">>), Star(Dot),
          Lit(<<"/">>), Star(Space), Lit(<<"2">>)>>, <<Lit(<<"m", "i", "d">>),
          Star(Space), Lit(<<"=">>), Star(Dot), Lit(<<">", ">">>), Star(Space),
          Lit(<<"1">>)>>>>,
          lower)
      hasRecursiveCalls ==
        Test(
          <<<<Lit(<<"m", "e", "r", "g", "e", "s", "o", "r", "t">>), Star(Dot),
          Lit(<<"m", "e", "r", "g", "e", "s", "o", "r", "t">>)>>, <<Lit(<<"s", "o",
          "r", "t">>), Star(Dot), Lit(<<"s", "o", "r", "t">>)>>>>,
          lower)
      hasArrayMerging ==
        Test(
          <<<<Lit(<<"w", "h", "i", "l", "e">>), Star(Dot), Lit(<<"l", "e", "f", "t">>),
          Star(Dot), Lit(<<"r", "i", "g", "h", "t">>)>>, <<Lit(<<"t", "e", "m", "p",
          "[">>)>>, <<Lit(<<"a", "u", "x", "[">>)>>>>,
          lower)
  IN  /\ hasMerge
      /\ hasDivision
      /\ hasRecursiveCalls
      /\ hasArrayMerging

isQuickSort(text) ==
  LET lower == ToLowerCase(text)
      hasPartition ==
        Test(
          <<<<Lit(<<"p", "a", "r", "t", "i", "t", "i", "o", "n">>), Star(Space),
          Lit(<<"(">>)>>>>,
          lower)
      hasPivot ==
        Test(
          <<<<Lit(<<"p", "i", "v", "o", "t">>)>>>>,
          lower)
      hasRecursiveCalls ==
        Test(
          <<<<Lit(<<"q", "u", "i", "c", "k", "s", "o", "r", "t">>), Star(Dot),
          Lit(<<"q", "u", "i", "c", "k", "s", "o", "r", "t">>)>>, <<Lit(<<"s", "o",
          "r", "t">>), Star(Dot), Lit(<<"s", "o", "r", "t">>)>>>>,
          lower)
      hasSwapping ==
        Test(
          <<<<Lit(<<"s", "w", "a", "p">>), Star(Space), Lit(<<"(">>)>>, <<Lit(<<"s",
          "t", "d", ":", ":", "s", "w", "a", "p">>)>>>>,
          lower)
  IN  /\ hasPartition \/ hasPivot
      /\ hasRecursiveCalls
      /\ hasSwapping

isHeapSort(text) ==
  LET lower == ToLowerCase(text)
      hasHeapify ==
        Test(
          <<<<Lit(<<"h", "e", "a", "p", "i", "f", "y">>)>>>>,
          lower)
      hasHeapOperations ==
        Test(
          <<<<Lit(<<"m", "a", "k", "e", "_", "h", "e", "a", "p">>)>>, <<Lit(<<"p", "u",
          "s", "h", "_", "h", "e", "a", "p">>)>>, <<Lit(<<"p", "o", "p", "_", "h", "e",
          "a", "p">>)>>>>,
          lower)
      hasParentChild ==
        Test(
          <<<<Lit(<<"p", "a", "r", "e", "n", "t">>)>>, <<Lit(<<"c", "h", "i", "l",
          "d">>)>>, <<Lit(<<"2">>), Star(Space), Lit(<<"*">>), Star(Space),
          Lit(<<"i">>)>>, <<Lit(<<"(">>), Star(Space), Lit(<<"i">>), Star(Space),
          Lit(<<"-">>), Star(Space), Lit(<<"1">>), Star(Space), Lit(<<")">>),
          Star(Space), Lit(<<"/">>), Star(Space), Lit(<<"2">>)>>>>,
          lower)
  IN  \/ hasHeapify
      \/ hasHeapOperations
      \/ hasParentChild

isBubbleSort(text) ==
  LET lower == ToLowerCase(text)
      hasNestedLoops ==
        Test(
          <<<<Lit(<<"f", "o", "r">>), Star(Dot), Lit(<<"f", "o", "r">>)>>, <<Lit(<<"w",
          "h", "i", "l", "e">>), Star(Dot), Lit(<<"w", "h", "i", "l", "e">>)>>>>,
          lower)
      hasSwapping ==
        Test(
          <<<<Lit(<<"s", "w", "a", "p">>)>>, <<Lit(<<"t", "e", "m", "p">>),
          Star(Space), Lit(<<"=">>), Star(Dot), Lit(<<"a", "r", "r", "[">>), Star(Dot),
          Lit(<<"]">>), Star(Dot), Lit(<<"a", "r", "r", "[">>), Star(Dot),
          Lit(<<"]">>), Star(Space), Lit(<<"=">>), Star(Dot), Lit(<<"t", "e", "m",
          "p">>)>>>>,
          lower)
      hasAdjacentComparison ==
        Test(
          <<<<Lit(<<"a", "r", "r", "[">>), Star(Space), Lit(<<"i">>), Star(Space),
          Lit(<<"]">>), Star(Space), Lit(<<">">>), Star(Space), Lit(<<"a", "r", "r",
          "[">>), Star(Space), Lit(<<"i">>), Star(Space), Lit(<<"+">>), Star(Space),
          Lit(<<"1">>), Star(Space), Lit(<<"]">>)>>, <<Lit(<<"a", "r", "r", "[">>),
          Star(Space), Lit(<<"j">>), Star(Space), Lit(<<"]">>), Star(Space),
          Lit(<<">">>), Star(Space), Lit(<<"a", "r", "r", "[">>), Star(Space),
          Lit(<<"j">>), Star(Space), Lit(<<"+">>), Star(Space), Lit(<<"1">>),
          Star(Space), Lit(<<"]">>)>>>>,
          lower)
  IN  /\ hasNestedLoops
      /\ hasSwapping
      /\ hasAdjacentComparison

isInsertionSort(text) ==
  LET lower == ToLowerCase(text)
      hasKeyElement ==
        Test(
          <<<<Lit(<<"k", "e", "y">>), Star(Space), Lit(<<"=">>)>>, <<Lit(<<"t", "e",
          "m", "p">>), Star(Space), Lit(<<"=">>), Star(Dot), Lit(<<"a", "r", "r",
          "[">>)>>>>,
          lower)
      hasShifting ==
        Test(
          <<<<Lit(<<"a", "r", "r", "[">>), Star(Space), Lit(<<"j">>), Star(Space),
          Lit(<<"+">>), Star(Space), Lit(<<"1">>), Star(Space), Lit(<<"]">>),
          Star(Space), Lit(<<"=">>), Star(Space), Lit(<<"a", "r", "r", "[">>),
          Star(Space), Lit(<<"j">>), Star(Space), Lit(<<"]">>)>>>>,
          lower)
      hasInsertion ==
        Test(
          <<<<Lit(<<"a", "r", "r", "[">>), Star(Space), Lit(<<"j">>), Star(Space),
          Lit(<<"+">>), Star(Space), Lit(<<"1">>), Star(Space), Lit(<<"]">>),
          Star(Space), Lit(<<"=">>), Star(Space), Lit(<<"k", "e", "y">>)>>,
          <<Lit(<<"a", "r", "r", "[">>), Star(Space), Lit(<<"j">>), Star(Space),
          Lit(<<"]">>), Star(Space), Lit(<<"=">>), Star(Space), Lit(<<"t", "e", "m",
          "p">>)>>>>,
          lower)
  IN  /\ hasKeyElement
      /\ hasShifting
      /\ hasInsertion

isBinarySearch(text) ==
  LET lower == ToLowerCase(text)
      hasMidCalculation ==
        Test(
          <<<<Lit(<<"m", "i", "d">>), Star(Space), Lit(<<"=">>), Star(Dot),
          Lit(<<"/">>), Star(Space), Lit(<<"2">>)>>, <<Lit(<<"m", "i", "d">>),
          Star(Space), Lit(<<"=">>), Star(Dot), Lit(<<">", ">">>), Star(Space),
          Lit(<<"1">>)>>, <<Lit(<<"(">>), Star(Space), Lit(<<"l", "e", "f", "t">>),
          Star(Space), Lit(<<"+">>), Star(Space), Lit(<<"r", "i", "g", "h", "t">>),
          Star(Space), Lit(<<")">>), Star(Space), Lit(<<"/">>), Star(Space),
          Lit(<<"2">>)>>>>,
          lower)
      hasBounds ==
        Test(
          <<<<Lit(<<"l", "e", "f", "t">>), Star(Space), Lit(<<"<">>), Opt(In({"="})),
          Star(Space), Lit(<<"r", "i", "g", "h", "t">>)>>, <<Lit(<<"l", "o", "w">>),
          Star(Space), Lit(<<"<">>), Opt(In({"="})), Star(Space), Lit(<<"h", "i", "g",
          "h">>)>>, <<Lit(<<"s", "t", "a", "r", "t">>), Star(Space), Lit(<<"<">>),
          Opt(In({"="})), Star(Space), Lit(<<"e", "n", "d">>)>>>>,
          lower)
      hasComparison ==
        Test(
          <<<<Lit(<<"a", "r", "r", "[">>), Star(Space), Lit(<<"m", "i", "d">>),
          Star(Space), Lit(<<"]">>), Star(Dot), Lit(<<"t", "a", "r", "g", "e",
          "t">>)>>, <<Lit(<<"d", "a", "t", "a", "[">>), Star(Space), Lit(<<"m", "i",
          "d">>), Star(Space), Lit(<<"]">>), Star(Dot), Lit(<<"k", "e", "y">>)>>>>,
          lower)
      hasUpdate ==
        Test(
          <<<<Lit(<<"l", "e", "f", "t">>), Star(Space), Lit(<<"=">>), Star(Space),
          Lit(<<"m", "i", "d">>)>>, <<Lit(<<"r", "i", "g", "h", "t">>), Star(Space),
          Lit(<<"=">>), Star(Space), Lit(<<"m", "i", "d">>)>>, <<Lit(<<"h", "i", "g",
          "h">>), Star(Space), Lit(<<"=">>), Star(Space), Lit(<<"m", "i", "d">>)>>,
          <<Lit(<<"l", "o", "w">>), Star(Space), Lit(<<"=">>), Star(Space), Lit(<<"m",
          "i", "d">>)>>>>,
          lower)
  IN  /\ hasMidCalculation
      /\ hasBounds
      /\ hasComparison
      /\ hasUpdate

isLinearSearch(text) ==
  LET lower == ToLowerCase(text)
      hasLoop ==
        Test(
          <<<<Lit(<<"f", "o", "r">>), Star(Dot), Lit(<<"i">>), Star(Dot), Lit(<<"l",
          "e", "n", "g", "t", "h">>)>>, <<Lit(<<"w", "h", "i", "l", "e">>), Star(Dot),
          Lit(<<"i">>), Star(Dot), Lit(<<"s", "i", "z", "e">>)>>>>,
          lower)
      hasComparison ==
        Test(
          <<<<Lit(<<"a", "r", "r", "[">>), Star(Space), Lit(<<"i">>), Star(Space),
          Lit(<<"]">>), Star(Dot), Lit(<<"t", "a", "r", "g", "e", "t">>)>>,
          <<Lit(<<"d", "a", "t", "a", "[">>), Star(Space), Lit(<<"i">>), Star(Space),
          Lit(<<"]">>), Star(Dot), Lit(<<"k", "e", "y">>)>>>>,
          lower)
      hasReturn ==
        Test(
          <<<<Lit(<<"r", "e", "t", "u", "r", "n">>), Star(Space), Lit(<<"i">>)>>,
          <<Lit(<<"r", "e", "t", "u", "r", "n">>), Star(Space), Lit(<<"t", "r", "u",
          "e">>)>>, <<Lit(<<"f", "o", "u", "n", "d">>)>>>>,
          lower)
  IN  /\ hasLoop
      /\ hasComparison
      /\ hasReturn
      /\ ~isBinarySearch(text)

isDFSPattern(text) ==
  LET lower == ToLowerCase(text)
      hasRecursion ==
        Test(
          <<<<Lit(<<"d", "f", "s">>), Star(Space), Lit(<<"(">>), Star(Dot),
          Lit(<<")">>), Star(Space), Lit(<<"{">>), Star(AnyChar), Lit(<<"d", "f",
          "s">>), Star(Space), Lit(<<"(">>)>>>>,
          lower)
      hasVisited ==
        Test(
          <<<<Lit(<<"v", "i", "s", "i", "t", "e", "d", "[">>)>>, <<Lit(<<"v", "i", "s",
          "i", "t", "[">>)>>>>,
          lower)
      hasAdjacency ==
        Test(
          <<<<Lit(<<"a", "d", "j", "[">>)>>, <<Lit(<<"g", "r", "a", "p", "h", "[">>)>>,
          <<Lit(<<"n", "e", "i", "g", "h", "b", "o", "r", "s">>)>>>>,
          lower)
  IN  /\ hasRecursion
      /\ hasVisited
      /\ hasAdjacency

isBFSPattern(text) ==
  LET lower == ToLowerCase(text)
      hasQueue ==
        Test(
          <<<<Lit(<<"q", "u", "e", "u", "e">>)>>, <<Lit(<<"s", "t", "d", ":", ":", "q",
          "u", "e", "u", "e">>)>>>>,
          lower)
      hasVisited ==
        Test(
          <<<<Lit(<<"v", "i", "s", "i", "t", "e", "d", "[">>)>>, <<Lit(<<"v", "i", "s",
          "i", "t", "[">>)>>>>,
          lower)
      hasLoop ==
        Test(
          <<<<Lit(<<"w", "h", "i", "l", "e">>), Star(Dot), Lit(<<"!">>), Star(Dot),
          Lit(<<"e", "m", "p", "t", "y">>)>>, <<Lit(<<"w", "h", "i", "l", "e">>),
          Star(Dot), Lit(<<"q", "u", "e", "u", "e", ".", "s", "i", "z", "e">>)>>>>,
          lower)
  IN  /\ hasQueue
      /\ hasVisited
      /\ hasLoop

isDijkstraPattern(text) ==
  LET lower == ToLowerCase(text)
      hasPriorityQueue ==
        Test(
          <<<<Lit(<<"p", "r", "i", "o", "r", "i", "t", "y", "_", "q", "u", "e", "u",
          "e">>)>>, <<Lit(<<"s", "t", "d", ":", ":", "p", "r", "i", "o", "r", "i", "t",
          "y", "_", "q", "u", "e", "u", "e">>)>>>>,
          lower)
      hasDistance ==
        Test(
          <<<<Lit(<<"d", "i", "s", "t", "[">>)>>, <<Lit(<<"d", "i", "s", "t", "a", "n",
          "c", "e", "[">>)>>>>,
          lower)
      hasRelaxation ==
        Test(
          <<<<Lit(<<"d", "i", "s", "t", "[">>), Star(Dot), Lit(<<"]">>), Star(Space),
          Lit(<<">">>), Star(Space), Lit(<<"d", "i", "s", "t", "[">>), Star(Dot),
          Lit(<<"]">>), Star(Space), Lit(<<"+">>)>>>>,
          lower)
  IN  /\ hasPriorityQueue
      /\ hasDistance
      /\ hasRelaxation

isDynamicProgramming(text) ==
  LET lower == ToLowerCase(text)
      hasMemo ==
        Test(
          <<<<Lit(<<"m", "e", "m", "o", "[">>)>>, <<Lit(<<"d", "p", "[">>)>>,
          <<Lit(<<"c", "a", "c", "h", "e", "[">>)>>>>,
          lower)
      hasBaseCase ==
        Test(
          <<<<Lit(<<"i", "f">>), Star(Dot), Lit(<<"r", "e", "t", "u", "r", "n">>)>>,
          <<Lit(<<"b", "a", "s", "e">>), Star(Dot), Lit(<<"c", "a", "s", "e">>)>>>>,
          lower)
      hasRecurrence ==
        Test(
          <<<<Lit(<<"d", "p", "[">>), Star(Dot), Lit(<<"]">>), Star(Space),
          Lit(<<"=">>), Star(Dot), Lit(<<"d", "p", "[">>), Star(Dot), Lit(<<"]">>)>>,
          <<Lit(<<"m", "e", "m", "o", "[">>), Star(Dot), Lit(<<"]">>), Star(Space),
          Lit(<<"=">>), Star(Dot), Lit(<<"m", "e", "m", "o", "[">>), Star(Dot),
          Lit(<<"]">>)>>>>,
          lower)
  IN  /\ hasMemo
      /\ hasBaseCase
      /\ hasRecurrence

isTreeTraversal(text) ==
  LET lower == ToLowerCase(text)
      hasTreeStructure ==
        Test(
          <<<<Lit(<<"l", "e", "f", "t">>)>>, <<Lit(<<"r", "i", "g", "h", "t">>)>>,
          <<Lit(<<"n", "o", "d", "e">>), Star(Space), Lit(<<"-", ">">>)>>, <<Lit(<<"t",
          "r", "e", "e">>)>>>>,
          lower)
      hasRecursion ==
        Test(
          <<<<Lit(<<"t", "r", "a", "v", "e", "r", "s", "e">>), Star(Dot), Lit(<<"t",
          "r", "a", "v", "e", "r", "s", "e">>)>>, <<Lit(<<"i", "n", "o", "r", "d", "e",
          "r">>), Star(Dot), Lit(<<"i", "n", "o", "r", "d", "e", "r">>)>>, <<Lit(<<"p",
          "r", "e", "o", "r", "d", "e", "r">>), Star(Dot), Lit(<<"p", "r", "e", "o",
          "r", "d", "e", "r">>)>>, <<Lit(<<"p", "o", "s", "t", "o", "r", "d", "e",
          "r">>), Star(Dot), Lit(<<"p", "o", "s", "t", "o", "r", "d", "e", "r">>)>>>>,
          lower)
      hasNullCheck ==
        Test(
          <<<<Lit(<<"i", "f">>), Star(Dot), Lit(<<"n", "u", "l", "l">>)>>, <<Lit(<<"i",
          "f">>), Star(Dot), Lit(<<"n", "u", "l", "l", "p", "t", "r">>)>>, <<Lit(<<"i",
          "f">>), Star(Dot), Lit(<<"!">>)>>>>,
          lower)
  IN  /\ hasTreeStructure
      /\ hasRecursion
      /\ hasNullCheck

\* An AlgorithmPattern; its range is the whole of the analyzer's lines.
AlgorithmPattern(name, description, timeComplexity, spaceComplexity, factors, confidence, isExact, evidence, text) ==
  [name |-> name,
   description |-> description,
   complexity |-> ComplexityInfo(timeComplexity, spaceComplexity, factors, confidence, isExact),
   confidence |-> confidence,
   evidence |-> evidence,
   lineRange |-> [start |-> 0, end |-> Len(Split(text)) - 1]]

\* One entry when the condition holds, none otherwise.
When(condition, pattern) == IF condition THEN <<pattern>> ELSE <<>>

detectSortingAlgorithms(text) ==
  When(isMergeSort(text),
       AlgorithmPattern("Merge Sort",
         "Divide-and-conquer sorting algorithm that recursively divides the array and merges sorted halves",
         O_nlogn, O_n, <<"divide-and-conquer", "stable-sort">>, Frac(95, 100), TRUE,
         <<"recursive division", "merge function", "temporary arrays">>, text))
  \o
  When(isQuickSort(text),
       AlgorithmPattern("Quick Sort",
         "Divide-and-conquer sorting algorithm using partitioning around a pivot element",
         <<"O", "(", "n", " ", "l", "o", "g", " ", "n", ")", " ", "a", "v", "e", "r", "a", "g", "e", ",", " ", "O", "(", "n", "sup2", ")", " ", "w", "o", "r", "s", "t">>,
         O_logn, <<"divide-and-conquer", "in-place", "pivot-based">>, Frac(9, 10), TRUE,
         <<"partition function", "pivot selection", "recursive calls">>, text))
  \o
  When(isHeapSort(text),
       AlgorithmPattern("Heap Sort",
         "Comparison-based sorting algorithm using binary heap data structure",
         O_nlogn, O_1, <<"heap-based", "in-place">>, Frac(9, 10), TRUE,
         <<"heapify operations", "heap building", "extract max/min">>, text))
  \o
  When(isBubbleSort(text),
       AlgorithmPattern("Bubble Sort",
         "Simple comparison-based sorting with adjacent element swapping",
         O_n2, O_1, <<"comparison-based", "stable", "in-place">>, Frac(85, 100), TRUE,
         <<"nested loops", "adjacent comparisons", "swapping">>, text))
  \o
  When(isInsertionSort(text),
       AlgorithmPattern("Insertion Sort",
         "Builds sorted array one element at a time by inserting elements in correct position",
         <<"O", "(", "n", "sup2", ")", " ", "w", "o", "r", "s", "t", ",", " ", "O", "(", "n", ")", " ", "b", "e", "s", "t">>,
         O_1, <<"comparison-based", "stable", "adaptive">>, Frac(8, 10), TRUE,
         <<"key element selection", "shifting elements", "insertion">>, text))

detectSearchingAlgorithms(text) ==
  When(isBinarySearch(text),
       AlgorithmPattern("Binary Search",
         "Efficient search algorithm for sorted arrays using divide-and-conquer",
         O_logn, O_1, <<"divide-and-conquer", "sorted-input">>, Frac(95, 100), TRUE,
         <<"mid calculation", "left/right bounds", "logarithmic reduction">>, text))
  \o
  When(isLinearSearch(text),
       AlgorithmPattern("Linear Search",
         "Sequential search through elements until target is found",
         O_n, O_1, <<"sequential", "unsorted-input">>, Frac(8, 10), TRUE,
         <<"sequential iteration", "element comparison">>, text))

detectGraphAlgorithms(text) ==
  LET codeText == ToLowerCase(text)
  IN  When(Includes(codeText, <<"d", "f", "s">>) \/ isDFSPattern(text),
           AlgorithmPattern("Depth-First Search (DFS)",
             "Graph traversal algorithm exploring as far as possible along each branch",
             <<"O", "(", "V", " ", "+", " ", "E", ")">>, <<"O", "(", "V", ")">>, <<"graph-traversal", "recursive">>,
             Frac(85, 100), TRUE,
             <<"recursive calls", "visited array", "adjacency exploration">>, text))
      \o
      When(Includes(codeText, <<"b", "f", "s">>) \/ isBFSPattern(text),
           AlgorithmPattern("Breadth-First Search (BFS)",
             "Graph traversal algorithm exploring neighbors before going deeper",
             <<"O", "(", "V", " ", "+", " ", "E", ")">>, <<"O", "(", "V", ")">>, <<"graph-traversal", "queue-based">>,
             Frac(85, 100), TRUE,
             <<"queue usage", "level-by-level traversal", "visited tracking">>, text))
      \o
      When(Includes(codeText, <<"d", "i", "j", "k", "s", "t", "r", "a">>) \/ isDijkstraPattern(text),
           AlgorithmPattern("Dijkstra's Shortest Path",
             "Algorithm for finding shortest paths from source to all vertices",
             <<"O", "(", "(", "V", " ", "+", " ", "E", ")", " ", "l", "o", "g", " ", "V", ")">>, <<"O", "(", "V", ")">>, <<"shortest-path", "priority-queue">>,
             Frac(9, 10), TRUE,
             <<"priority queue", "distance array", "relaxation">>, text))

detectDynamicProgramming(text) ==
  When(isDynamicProgramming(text),
       AlgorithmPattern("Dynamic Programming",
         "Optimization technique using memoization to solve overlapping subproblems",
         <<"O", "(", "n", ")", " ", "t", "o", " ", "O", "(", "n", "sup2", ")">>,
         O_n, <<"memoization", "optimal-substructure">>, Frac(8, 10), FALSE,
         <<"memoization array", "subproblem solving", "optimal combination">>, text))

detectTreeAlgorithms(text) ==
  When(isTreeTraversal(text),
       AlgorithmPattern("Tree Traversal",
         "Systematic visiting of tree nodes (inorder, preorder, postorder)",
         O_n, <<"O", "(", "h", ")">>, <<"tree-traversal", "recursive">>, Frac(85, 100), TRUE,
         <<"recursive structure", "left/right traversal", "node processing">>, text))

detectAlgorithmPatterns(text) ==
  detectSortingAlgorithms(text) \o detectSearchingAlgorithms(text)
    \o detectGraphAlgorithms(text) \o detectDynamicProgramming(text)
    \o detectTreeAlgorithms(text)

\* The sentences of a forEach over the entries: for each entry, in order,
\* the sentences the entry gives.
RECURSIVE Sentences(_)
Sentences(perEntry) ==
  IF Len(perEntry) = 0 THEN <<>> ELSE Head(perEntry) \o Sentences(Tail(perEntry))

\* A recommendation or warning: the sentence and what is put into it.
Sentence(words, detail) == [sentence |-> words, about |-> detail]

generateRecommendations(text, functions, loops, algorithms) ==
  Sentences([k \in 1..Len(functions) |->
     When(Includes(functions[k].complexity.timeComplexity, O_2n),
          Sentence("Consider memoization for function to reduce exponential time complexity",
                   functions[k].name))
     \o
     When(functions[k].isRecursive /\ functions[k].recursionType = <<"l", "i", "n", "e", "a", "r">>,
          Sentence("Function uses linear recursion - consider iterative approach to reduce space complexity",
                   functions[k].name))])
  \o
  Sentences([k \in 1..Len(loops) |->
     When(loops[k].nestingLevel > 2,
          Sentence("Deep loop nesting detected - consider algorithmic optimization",
                   loops[k].nestingLevel))
     \o
     When(Includes(loops[k].complexity.timeComplexity, O_n2) /\ loops[k].type = <<"f", "o", "r">>,
          Sentence("Quadratic nested loops detected - consider using hash tables or efficient data structures",
                   <<>>))])
  \o
  When(\E k \in 1..Len(algorithms) : algorithms[k].name = "Bubble Sort",
       Sentence("Bubble sort detected - consider using more efficient sorting algorithms like Quick Sort or Merge Sort",
                <<>>))
  \o
  When(/\ \E k \in 1..Len(algorithms) : algorithms[k].name = "Linear Search"
       /\ Includes(text, <<"s", "o", "r", "t">>),
       Sentence("Linear search on sorted data - consider using binary search for O(log n) complexity",
                <<>>))

generateWarnings(functions, loops) ==
  Sentences([k \in 1..Len(functions) |->
     When(\/ Includes(functions[k].complexity.timeComplexity, O_2n)
          \/ Includes(functions[k].complexity.timeComplexity, O_nfact),
          Sentence("Exponential/factorial complexity in function - may not scale for large inputs",
                   functions[k].name))])
  \o
  Sentences([k \in 1..Len(loops) |->
     When(loops[k].nestingLevel > 3,
          Sentence("Very deep loop nesting detected - review algorithm design",
                   loops[k].nestingLevel))])
  \o
  Sentences([k \in 1..Len(functions) |->
     When(functions[k].isRecursive /\ functions[k].recursionType = <<"b", "i", "n", "a", "r", "y", "-", "t", "r", "e", "e">>,
          Sentence("Binary tree recursion - stack overflow risk for large inputs",
                   functions[k].name))])

\* The confidence of each entry's complexity.
ComplexityConfidences(entries) ==
  [k \in 1..Len(entries) |-> entries[k].complexity.confidence]

calculateOverallConfidence(root, functions, loops, algorithms) ==
  LET confidences ==
        ComplexityConfidences(functions) \o ComplexityConfidences(loops)
          \o [k \in 1..Len(algorithms) |-> algorithms[k].confidence]
          \o <<root.complexity.confidence>>
      algorithmWeight == Frac(4, 10)
      otherWeight == Frac(6, 10)
      algorithmConfidence ==
        IF Len(algorithms) > 0
        THEN Over(Sum([k \in 1..Len(algorithms) |-> algorithms[k].confidence]),
                  Num(Len(algorithms)))
        ELSE Frac(5, 10)
      otherConfidence ==
        IF Len(functions) + Len(loops) > 0
        THEN Over(Sum(ComplexityConfidences(functions) \o ComplexityConfidences(loops)),
                  Num(Len(functions) + Len(loops)))
        ELSE Frac(5, 10)
  IN  IF Len(confidences) = 0 THEN Frac(5, 10)
      ELSE Plus(Times(algorithmWeight, algorithmConfidence),
                Times(otherWeight, otherConfidence))

\* new StaticComplexityAnalyzer(code).analyze() once the parser has built
\* the tree.
StaticComplexityAnalyzer_analyze(text, root) ==
  LET functionAnalysis == analyzeFunctions(text, root)
      loopAnalysis == analyzeLoops(root)
      algorithmPatterns == detectAlgorithmPatterns(text)
  IN  [overallComplexity |-> root.complexity,
       functionAnalysis |-> functionAnalysis,
       loopAnalysis |-> loopAnalysis,
       algorithmPatterns |-> algorithmPatterns,
       recommendations |->
         generateRecommendations(text, functionAnalysis, loopAnalysis, algorithmPatterns),
       warnings |-> generateWarnings(functionAnalysis, loopAnalysis),
       confidence |->
         calculateOverallConfidence(root, functionAnalysis, loopAnalysis, algorithmPatterns)]

(***************************************************************************)
(* Comprehensive analysis: CppComplexityAnalyzer and                       *)
(* EmpiricalComplexityRunner                                               *)
(*                                                                         *)
(* Of the options, includeEmpiricalAnalysis and inputSizes are kept.  A    *)
(* run of executeCode awaits a timer of the host: it yields a measured     *)
(* time, or fails in the host, which the catch of runSingleTest turns into *)
(* null.  The measured times come from Math.random and are drawn.  The     *)
(* report texts and the memory figures are left out.                       *)
(***************************************************************************)

\* The default sizes of the constructor, and baseSizes of generateTestCases.
baseSizes == <<10, 50, 100, 500, 1000, 5000, 10000>>

minIterations == 3
maxIterations == 10

\* The constructor of CppComplexityAnalyzer: the defaults, overridden by the
\* options supplied.
AnalysisOptions(supplied) ==
  [includeEmpiricalAnalysis |->
     IF "includeEmpiricalAnalysis" \in DOMAIN supplied
     THEN supplied.includeEmpiricalAnalysis ELSE TRUE,
   inputSizes |->
     IF "inputSizes" \in DOMAIN supplied THEN supplied.inputSizes ELSE baseSizes]

\* generateTestCases(): one test case for each of baseSizes, held by its size.
generateTestCases == baseSizes

\* The iteration count without the floor of minIterations.
Iterations_NoMinimum(inputSize) ==
  LET quotient == 1000 \div inputSize
  IN  IF quotient < maxIterations THEN quotient ELSE maxIterations

\* Math.min(maxIterations, Math.max(minIterations, Math.floor(1000 / inputSize)))
Iterations(inputSize) ==
  LET quotient == 1000 \div inputSize
      atLeast == IF quotient > minIterations THEN quotient ELSE minIterations
  IN  IF atLeast < maxIterations THEN atLeast ELSE maxIterations

\* runSingleTest(testCase) when the runs of executeCode took the times given:
\* the mean time of the iterations.  The result is a slot, empty for null.
runSingleTest(inputSize, times) ==
  IF Len(times) = 0 THEN NoResult
  ELSE Some([inputSize |-> inputSize,
             executionTime |-> Over(Sum(times), Num(Len(times))),
             iterations |-> Iterations(inputSize)])

\* The catch block of EmpiricalComplexityRunner.analyze.
FailedAnalysis(message) ==
  [dataPoints |-> <<>>,
   bestFitComplexity |-> Unknown,
   rSquared |-> Num(0),
   timeCoefficient |-> Num(0),
   averageTime |-> Num(0),
   inputSizes |-> <<>>,
   executionTimes |-> <<>>,
   errorMessage |-> message]

\* The try block of EmpiricalComplexityRunner.analyze after its loop: the
\* error thrown, or the result returned with the analysis of the points.
AnalyzeCollected(points, analysis) ==
  IF Len(points) < 3
  THEN [thrown |-> Some("Insufficient data points for empirical analysis"),
        returned |-> NoResult]
  ELSE [thrown |-> NoResult,
        returned |->
          Some([dataPoints |-> points,
                bestFitComplexity |-> analysis.bestFitComplexity,
                rSquared |-> analysis.rSquared,
                timeCoefficient |-> analysis.timeCoefficient,
                averageTime |->
                  Over(Sum([i \in 1..Len(points) |-> points[i].executionTime]),
                       Num(Len(points))),
                inputSizes |-> [i \in 1..Len(points) |-> points[i].inputSize],
                executionTimes |-> [i \in 1..Len(points) |-> points[i].executionTime],
                errorMessage |-> ""])]

\* EmpiricalComplexityRunner.analyze without its catch block.
EmpiricalComplexityRunner_analyze_NoCatch(points, analysis) ==
  AnalyzeCollected(points, analysis)

\* EmpiricalComplexityRunner.analyze once the test cases have run: an error
\* thrown in the try block is caught and returned as a result.
EmpiricalComplexityRunner_analyze(points, analysis) ==
  IF AnalyzeCollected(points, analysis).thrown # NoResult
  THEN [thrown |-> NoResult,
        returned |-> Some(FailedAnalysis(Val(AnalyzeCollected(points, analysis).thrown)))]
  ELSE AnalyzeCollected(points, analysis)

createMockEmpiricalResult == FailedAnalysis("Empirical analysis disabled")

createMockRegressionResult ==
  [bestFit |-> [complexity |-> Unknown,
                rSquared |-> Num(0),
                coefficient |-> Num(0),
                confidence |-> Num(0),
                pValue |-> Num(1),
                residuals |-> <<>>,
                predictedValues |-> <<>>],
   allFits |-> <<>>,
   reliability |-> "low",
   dataQuality |-> [sampleSize |-> 0, variance |-> Num(0), outliers |-> <<>>,
                    monotonicity |-> Num(0)]]

\* complexityChart of generateVisualizationData.
complexityChart(empirical) ==
  [i \in 1..Len(empirical.inputSizes) |->
     [x |-> empirical.inputSizes[i], y |-> empirical.executionTimes[i]]]

\* The value analyze() returns: the merged result, the metadata and the
\* chart of the measured times.
ComprehensiveAnalysisResult(merged, text, empirical) ==
  [metadata |-> [codeLength |-> Len(text), linesOfCode |-> Len(Split(text))],
   visualizationData |-> [complexityChart |-> complexityChart(empirical)]] @@ merged
(***************************************************************************)
(* Specification of the lattice utilities: one call on drawn operands      *)
(***************************************************************************)

\* The classes the lattice operations are applied to: the canonical ones and
\* the products the table itself introduces.
LatticeInputs == CanonicalClasses \cup {O_log2n, O_nlog2n, O_n2logn, O_n2log2n}

\* No lattice call is in progress.
LatticeIdle ==
  /\ complexity1 = NoResult
  /\ complexity2 = NoResult
  /\ higher = NoResult
  /\ product = NoResult

\* No analysis results exist.
ResultsIdle ==
  /\ staticResult = NoResult
  /\ empiricalResult = NoResult
  /\ regressionResult = NoResult
  /\ mergedResult = NoResult

\* No regression engine has been built.
EngineIdle ==
  /\ inputSizes = NoResult
  /\ executionTimes = NoResult

\* No parser has been built and no request answered.
ParserIdle ==
  /\ code = <<>>
  /\ lines = <<>>
  /\ currentLine = 0
  /\ ast = NoResult
  /\ response = NoResult

\* No comprehensive analysis has been started.
PipelineIdle ==
  /\ options = NoResult
  /\ testCases = <<>>
  /\ testIndex = 0
  /\ dataPoints = <<>>
  /\ thrown = NoResult
  /\ comprehensiveResult = NoResult

InitLattice ==
  /\ PipelineIdle
  /\ complexity1 \in LatticeInputs
  /\ complexity2 \in LatticeInputs
  /\ higher = NoResult
  /\ product = NoResult
  /\ pc = "lattice"
  /\ ResultsIdle
  /\ EngineIdle
  /\ ParserIdle

\* One call isHigherComplexity(complexity1, complexity2).
Compare ==
  /\ pc = "lattice"
  /\ higher = NoResult
  /\ higher' = Some(isHigherComplexity(complexity1, complexity2))
  /\ UNCHANGED <<pipelineVars, complexity1, complexity2, product, pc, resultVars, engineVars, parserVars>>

\* One call multiplyComplexities(complexity1, complexity2).
Multiply ==
  /\ pc = "lattice"
  /\ product = NoResult
  /\ product' = Some(multiplyComplexities(complexity1, complexity2))
  /\ UNCHANGED <<pipelineVars, complexity1, complexity2, higher, pc, resultVars, engineVars, parserVars>>

NextLattice == Compare \/ Multiply

SpecLattice == InitLattice /\ [][NextLattice]_vars

(***************************************************************************)
(* Specification of the merger: one merge() on drawn analysis results      *)
(***************************************************************************)

\* A FunctionAnalysis entry of a non-recursive function.
PlainFunction ==
  [name |-> <<"f">>, timeComplexity |-> O_1, confidence |-> Num(1), isRecursive |-> FALSE]

\* A StaticAnalysisResult with the fields the merger reads.
StaticResultOf(time, confidence, functions) ==
  [overallComplexity |-> [timeComplexity |-> time, spaceComplexity |-> O_1,
                          confidence |-> Num(1)],
   functionAnalysis |-> functions,
   loopAnalysis |-> <<>>,
   algorithmPatterns |-> <<>>,
   confidence |-> confidence]

\* An EmpiricalAnalysisResult of a run that collected n data points.
EmpiricalResultOf(best, rSquared, n) ==
  [dataPoints |-> [i \in 1..n |-> [inputSize |-> i, executionTime |-> Num(1)]],
   bestFitComplexity |-> best,
   rSquared |-> rSquared,
   errorMessage |-> ""]

\* The catch block of EmpiricalComplexityRunner.analyze and
\* createMockEmpiricalResult: no data, 'Unknown', an error message.
FailedEmpiricalResult(message) ==
  [dataPoints |-> <<>>,
   bestFitComplexity |-> Unknown,
   rSquared |-> Num(0),
   errorMessage |-> message]

\* A RegressionAnalysis with the fields the merger reads.
RegressionResultOf(best, confidence) ==
  [bestFit |-> [complexity |-> best, confidence |-> confidence]]

\* The names analyzePerformanceData chooses from.
EmpiricalLabels == {O_1, O_logn, O_n, O_nlogn, O_n2, O_n3, O_2n}

\* The names fitAllComplexities fits.
RegressionLabels ==
  {O_1, O_logn, O_sqrtn, O_n, O_nlogn, O_nsqrtn, O_n2, O_n2logn, O_n3, O_2n, O_nfact}

StaticConfidences == {Frac(50, 100), Frac(85, 100)}
RegressionConfidences == {Num(0), Frac(60, 100), Num(1)}
EmpiricalRSquared == {Frac(50, 100), Frac(90, 100)}
DataPointCounts == {4, 5}

InitMerge ==
  /\ PipelineIdle
  /\ LatticeIdle
  /\ EngineIdle
  /\ ParserIdle
  /\ pc = "merge"
  /\ staticResult \in
       {Some(StaticResultOf(t, c, f)) :
          t \in CanonicalClasses \cup {Unknown}, c \in StaticConfidences,
          f \in {<<>>, <<PlainFunction>>}}
  /\ \/ /\ empiricalResult \in
             {Some(EmpiricalResultOf(b, r, n)) :
                b \in EmpiricalLabels, r \in EmpiricalRSquared, n \in DataPointCounts}
        /\ regressionResult \in
             {Some(RegressionResultOf(b, c)) :
                b \in RegressionLabels, c \in RegressionConfidences}
     \/ \* the sampler failed: the regression ran on no data
        /\ empiricalResult =
             Some(FailedEmpiricalResult("Insufficient data points for empirical analysis"))
        /\ regressionResult = Some(RegressionResultOf(O_1, Num(0)))
     \/ \* sampling disabled: the two mock results
        /\ empiricalResult = Some(FailedEmpiricalResult("Empirical analysis disabled"))
        /\ regressionResult = Some(RegressionResultOf(Unknown, Num(0)))
  /\ mergedResult = NoResult

\* Step 4 of CppComplexityAnalyzer.analyze: new ComplexityResultsMerger(...).merge().
Merge ==
  /\ pc = "merge"
  /\ mergedResult' = Some(merge(Val(staticResult), Val(empiricalResult), Val(regressionResult)))
  /\ pc' = "merged"
  /\ UNCHANGED <<pipelineVars, latticeVars, engineVars, staticResult, empiricalResult, regressionResult, parserVars>>

NextMerge == Merge

SpecMerge == InitMerge /\ [][NextMerge]_vars


(***************************************************************************)
(* Specification of the regression engine: one analyze() on drawn samples  *)
(***************************************************************************)

\* Sample sizes: powers of four, on which every growth function is exact.
FitSizes == {1, 4}

\* Measured times run from 1 to MaxTime above a common base; above the base
\* of 100 they lie within 5% of one another.
MaxTime == 3
BaseTimes == {0, 100}

\* The number of (size, time) pairs of a run.
NumSamples == 3

InitFit ==
  /\ PipelineIdle
  /\ LatticeIdle
  /\ ParserIdle
  /\ pc = "fit"
  /\ inputSizes \in [1..NumSamples -> FitSizes]
  /\ executionTimes \in {[i \in 1..NumSamples |-> Num(base + t[i])] :
                           base \in BaseTimes, t \in [1..NumSamples -> 1..MaxTime]}
  /\ staticResult = NoResult
  /\ empiricalResult = NoResult
  /\ regressionResult = NoResult
  /\ mergedResult = NoResult

\* new CurveFittingEngine(inputSizes, executionTimes).analyze()
Fit ==
  /\ pc = "fit"
  /\ regressionResult' = Some(CurveFittingEngine_analyze(inputSizes, executionTimes))
  /\ pc' = "fitted"
  /\ UNCHANGED <<pipelineVars, latticeVars, engineVars, staticResult, empiricalResult, mergedResult, parserVars>>

NextFit == Fit

SpecFit == InitFit /\ [][NextFit]_vars

(***************************************************************************)
(* Specification of the structural analysis: a parser built on a source    *)
(* text reads it statement by statement, the static analyzer reports on    *)
(* the tree, and the quick-analyze route answers a request for the text    *)
(***************************************************************************)

\* The deepest nest of counting loops among the programs.
MaxDepth == 4

\* d counting loops, one inside the other, around a constant-time body:
\* for (int i = 0; i < n; i++) { ... x++; ... }, the separator between the
\* parts, the loop variables i, j, k, ... in turn.
RECURSIVE NestedLoops(_, _, _)
NestedLoops(d, k, separator) ==
  LET v == <<"i", "j", "k", "l", "m", "p", "q">>[k]
  IN  IF k > d THEN <<"x", "+", "+", ";">>
      ELSE <<"f", "o", "r", " ", "(", "i", "n", "t", " ">> \o <<v>> \o <<" ", "=", " ", "0", ";", " ">> \o <<v>> \o <<" ", "<", " ", "n", ";", " ">> \o <<v>>
             \o <<"+", "+", ")", " ", "{">> \o separator
             \o NestedLoops(d, k + 1, separator) \o separator \o <<"}">>

\* The source texts analysed: the empty and a white-space-only text, a
\* statement that reads like heap indexing, a function named dfs, a
\* recursive function, comments and literals, a container declaration, a
\* library call, a return, a binary search, a conditional, a bubble sort, an
\* unclosed loop, three statements on three lines, a function of two
\* counting loops one after the other, a function whose brace opens on the
\* next line, and the nests of counting loops on one line and on several.
Programs ==
  {<<>>,
   <<" ", "\n", "\t", " ">>,
   <<"x", " ", "=", " ", "2", "*", "i", ";">>,
   <<"v", "o", "i", "d", " ", "d", "f", "s", "(", "i", "n", "t", " ", "u", ")", " ", "{", "\n", " ", " ", "v", "i", "s", "i", "t", "(", "u", ")", ";", "\n", "}">>,
   <<"i", "n", "t", " ", "f", "i", "b", "(", "i", "n", "t", " ", "n", ")", " ", "{", "\n", " ", " ", "r", "e", "t", "u", "r", "n", " ", "f", "i", "b", "(", "n", "-", "1", ")", " ", "+", " ", "f", "i", "b", "(", "n", "-", "2", ")", ";", "\n", "}">>,
   <<"/", "/", " ", "s", "u", "m", "\n", "i", "n", "t", " ", "a", " ", "=", " ", "1", ";", " ", "/", "*", " ", "b", " ", "*", "/", " ", "s", " ", "=", " ", "\"", "q", "\"", ";">>,
   <<"v", "e", "c", "t", "o", "r", "<", "i", "n", "t", ">", " ", "v", ";">>,
   <<"s", "o", "r", "t", "(", "v", ".", "b", "e", "g", "i", "n", "(", ")", ",", " ", "v", ".", "e", "n", "d", "(", ")", ")", ";">>,
   <<"r", "e", "t", "u", "r", "n", " ", "0", ";">>,
   <<"w", "h", "i", "l", "e", " ", "(", "l", "o", "w", " ", "<", "=", " ", "h", "i", "g", "h", ")", " ", "{", " ", "m", "i", "d", " ", "=", " ", "(", "l", "o", "w", " ", "+", " ", "h", "i", "g", "h", ")", " ", "/", " ", "2", ";", " ">>
     \o <<"i", "f", " ", "(", "a", "r", "r", "[", "m", "i", "d", "]", " ", "=", "=", " ", "t", "a", "r", "g", "e", "t", ")", " ", "r", "e", "t", "u", "r", "n", " ", "m", "i", "d", ";", " ", "l", "o", "w", " ", "=", " ", "m", "i", "d", " ", "+", " ", "1", ";", " ", "}">>,
   <<"i", "f", " ", "(", "x", ")", " ", "{", " ", "y", "(", ")", ";", " ", "}">>,
   <<"f", "o", "r", " ", "(", "i", ")", " ", "{", " ", "f", "o", "r", " ", "(", "j", ")", " ", "{", " ", "i", "f", " ", "(", "a", "r", "r", "[", "j", "]", " ", ">", " ", "a", "r", "r", "[", "j", "+", "1", "]", ")", " ", "s", "w", "a", "p", "(", "a", "r", "r", "[", "j", "]", ",", " ", "a", "r", "r", "[", "j", "+", "1", "]", ")", ";", " ", "}", " ", "}">>,
   <<"w", "h", "i", "l", "e", " ", "(", "x", ")", " ", "{">>,
   <<"v", "e", "c", "t", "o", "r", "<", "i", "n", "t", ">", " ", "v", ";", "\n", "s", "o", "r", "t", "(", "v", ".", "b", "e", "g", "i", "n", "(", ")", ",", " ", "v", ".", "e", "n", "d", "(", ")", ")", ";", "\n", "r", "e", "t", "u", "r", "n", " ", "0", ";">>,
   <<"v", "o", "i", "d", " ", "f", "(", ")", " ", "{", "\n", "f", "o", "r", " ", "(", "i", "n", "t", " ", "i", " ", "=", " ", "0", ";", " ", "i", " ", "<", " ", "n", ";", " ", "i", "+", "+", ")", " ", "{", " ", "x", "+", "+", ";", " ", "}", "\n">>
     \o <<"f", "o", "r", " ", "(", "i", "n", "t", " ", "j", " ", "=", " ", "0", ";", " ", "j", " ", "<", " ", "n", ";", " ", "j", "+", "+", ")", " ", "{", " ", "y", "+", "+", ";", " ", "}", "\n", "}">>,
   <<"v", "o", "i", "d", " ", "g", "(", ")", "\n", "{", "\n", " ", " ", "h", "(", ")", ";", "\n", "}">>}
    \cup {NestedLoops(d, 1, separator) : d \in 0..MaxDepth, separator \in {<<" ">>, <<"\n">>}}

\* The largest code the routes accept.
MaxCodeLength == 50000

\* The answer of NextResponse.json(body, { status }).
Response(status, body) == [status |-> status, body |-> body]

\* POST without the test for white-space-only code.
POST_AcceptsBlank(text) ==
  IF Len(text) = 0
  THEN Response(400, [error |-> "Invalid or missing code parameter"])
  ELSE Response(200,
                [type |-> "quick-analysis",
                 result |-> StaticComplexityAnalyzer_analyze(text, parse(text)),
                 metadata |-> [analysisType |-> "static-only",
                               codeLength |-> Len(text),
                               linesOfCode |-> Len(Split(text))]])

\* POST of the quick-analyze route for a request whose body carries the text
\* as its code; the timestamp is left out.
POST(text) ==
  IF Len(text) = 0
  THEN Response(400, [error |-> "Invalid or missing code parameter"])
  ELSE IF Len(Trim(text)) = 0
  THEN Response(400, [error |-> "Code cannot be empty"])
  ELSE IF Len(text) > MaxCodeLength
  THEN Response(400, [error |-> "Code is too large (max 50,000 characters)"])
  ELSE Response(200,
                [type |-> "quick-analysis",
                 result |-> StaticComplexityAnalyzer_analyze(text, parse(text)),
                 metadata |-> [analysisType |-> "static-only",
                               codeLength |-> Len(text),
                               linesOfCode |-> Len(Split(text))]])

InitStatic ==
  /\ PipelineIdle
  /\ LatticeIdle
  /\ ResultsIdle
  /\ EngineIdle
  /\ pc = "new"
  /\ code \in Programs
  /\ lines = <<>>
  /\ currentLine = 0
  /\ ast = NoResult
  /\ response = NoResult

\* new CppParser(code), and parse() up to its loop: the lines are set, the
\* first line is current, the root has no children yet.
NewParser ==
  /\ pc = "new"
  /\ lines' = Split(preprocessCode(code))
  /\ currentLine' = 0
  /\ ast' = Some(ProgramRoot(Split(preprocessCode(code))))
  /\ pc' = "parse"
  /\ UNCHANGED <<pipelineVars, latticeVars, resultVars, engineVars, code, response>>

\* A round of the loop of parse() without its currentLine++.
ParseStatement_NoAdvance ==
  /\ pc = "parse"
  /\ currentLine < Len(lines)
  /\ LET statement == parseStatement(lines, currentLine)
     IN  /\ ast' = Some([Val(ast) EXCEPT !.children = @ \o statement.node])
         /\ currentLine' = statement.currentLine
  /\ UNCHANGED <<pipelineVars, latticeVars, resultVars, engineVars, code, lines, pc, response>>

\* One round of the loop of parse(): a statement is parsed at the current
\* line, its node, if any, becomes a child of the root, the line advances.
ParseStatement ==
  /\ pc = "parse"
  /\ currentLine < Len(lines)
  /\ LET statement == parseStatement(lines, currentLine)
     IN  /\ ast' = Some([Val(ast) EXCEPT !.children = @ \o statement.node])
         /\ currentLine' = statement.currentLine + 1
  /\ UNCHANGED <<pipelineVars, latticeVars, resultVars, engineVars, code, lines, pc, response>>

\* The loop of parse() is over: the complexity of the root is calculated and
\* the root returned.
FinishParse ==
  /\ pc = "parse"
  /\ currentLine >= Len(lines)
  /\ ast' = Some(CompletedRoot(Val(ast)))
  /\ pc' = "parsed"
  /\ UNCHANGED <<pipelineVars, latticeVars, resultVars, engineVars, code, lines, currentLine, response>>

\* StaticComplexityAnalyzer.analyze() on the tree the parser returned.
Analyze ==
  /\ pc = "parsed"
  /\ staticResult' = Some(StaticComplexityAnalyzer_analyze(code, Val(ast)))
  /\ pc' = "analyzed"
  /\ UNCHANGED <<pipelineVars, latticeVars, engineVars, empiricalResult, regressionResult, mergedResult,
                 parserVars>>

\* The quick-analyze route answers a request for the code; the request is
\* served on its own, whatever an analyzer built elsewhere is doing.
Post ==
  /\ pc \in {"new", "parse", "parsed", "analyzed"}
  /\ response = NoResult
  /\ response' = Some(POST(code))
  /\ UNCHANGED <<pipelineVars, latticeVars, resultVars, engineVars, pc, code, lines, currentLine, ast>>

NextStatic == NewParser \/ ParseStatement \/ FinishParse \/ Analyze \/ Post

SpecStatic == InitStatic /\ [][NextStatic]_vars

(***************************************************************************)
(* Specification of the comprehensive analysis: one call of                *)
(* CppComplexityAnalyzer.analyze()                                         *)
(***************************************************************************)

\* The source texts analysed: a statement, a function, an unclosed loop.
PipelineCodes ==
  {<<"x", " ", "=", " ", "2", "*", "i", ";">>,
   <<"i", "n", "t", " ", "f", "(", ")", " ", "{", "\n", "r", "e", "t", "u", "r", "n", " ",
     "0", ";", "\n", "}">>,
   <<"w", "h", "i", "l", "e", " ", "(", "x", ")", " ", "{">>}

\* The options a caller supplies: none, sampling disabled, sizes of its own.
SuppliedOptions ==
  {<<>>, [includeEmpiricalAnalysis |-> FALSE], [inputSizes |-> <<10, 100>>]}

\* The times a run of executeCode is measured to take.
MeasuredTimes == {Frac(2, 1000), Frac(4, 1000)}

\* The outcomes of the iterations of one test case: the host failed, or
\* the first iteration took the longer measured time and the later ones
\* the shorter.
Executions(inputSize) ==
  {<<>>,
   [i \in 1..Iterations(inputSize) |-> IF i = 1 THEN Frac(4, 1000) ELSE Frac(2, 1000)]}

\* The results analyzePerformanceData returns on measured times: the first
\* function with no fit better than zero, or the best fit.
PerformanceAnalyses ==
  {[bestFitComplexity |-> O_1, rSquared |-> Num(0), timeCoefficient |-> Num(0)],
   [bestFitComplexity |-> O_n, rSquared |-> Frac(90, 100), timeCoefficient |-> Num(1)]}

\* The regressions of a CurveFittingEngine: computed on no data; drawn on
\* the measured times, whose fits are not rational numbers.
Regressions(sizes, times) ==
  IF Len(sizes) = 0 THEN {CurveFittingEngine_analyze(sizes, times)}
  ELSE {RegressionResultOf(O_n, Frac(60, 100)), RegressionResultOf(O_2n, Num(1))}

Init ==
  /\ LatticeIdle
  /\ ResultsIdle
  /\ EngineIdle
  /\ lines = <<>>
  /\ currentLine = 0
  /\ ast = NoResult
  /\ response = NoResult
  /\ pc = "start"
  /\ code \in PipelineCodes
  /\ options \in {Some(AnalysisOptions(supplied)) : supplied \in SuppliedOptions}
  /\ testCases = <<>>
  /\ testIndex = 0
  /\ dataPoints = <<>>
  /\ thrown = NoResult
  /\ comprehensiveResult = NoResult

\* Step 1: new StaticComplexityAnalyzer(this.code), whose constructor parses
\* the code.
NewStaticAnalyzer ==
  /\ pc = "start"
  /\ ast' = Some(parse(code))
  /\ pc' = "parsed"
  /\ UNCHANGED <<latticeVars, resultVars, engineVars, pipelineVars,
                 code, lines, currentLine, response>>

\* Step 1: staticAnalyzer.analyze() on the tree of the constructor.
StaticAnalysis ==
  /\ pc = "parsed"
  /\ staticResult' = Some(StaticComplexityAnalyzer_analyze(code, Val(ast)))
  /\ pc' = IF Val(options).includeEmpiricalAnalysis THEN "runner" ELSE "mock"
  /\ UNCHANGED <<latticeVars, engineVars, parserVars, pipelineVars,
                 empiricalResult, regressionResult, mergedResult>>

\* Step 2: new EmpiricalComplexityRunner(this.code), and analyze() up to
\* its loop.
NewRunner ==
  /\ pc = "runner"
  /\ testCases' = generateTestCases
  /\ testIndex' = 0
  /\ dataPoints' = <<>>
  /\ pc' = "sampling"
  /\ UNCHANGED <<latticeVars, resultVars, engineVars, parserVars,
                 options, thrown, comprehensiveResult>>

\* One round of the loop of EmpiricalComplexityRunner.analyze: the test case
\* is run and its result, unless null, pushed.
RunSingleTest ==
  /\ pc = "sampling"
  /\ testIndex < Len(testCases)
  /\ \E times \in Executions(testCases[testIndex + 1]) :
       dataPoints' = dataPoints \o runSingleTest(testCases[testIndex + 1], times)
  /\ testIndex' = testIndex + 1
  /\ UNCHANGED <<latticeVars, resultVars, engineVars, parserVars, pc,
                 options, testCases, thrown, comprehensiveResult>>

\* FinishSampling without waiting for the loop to end.
FinishSampling_BeforeLoopEnds ==
  /\ pc = "sampling"
  /\ \E analysis \in PerformanceAnalyses :
       IF EmpiricalComplexityRunner_analyze(dataPoints, analysis).thrown # NoResult
       THEN /\ thrown' = Some("Analysis failed")
            /\ pc' = "thrown"
            /\ UNCHANGED empiricalResult
       ELSE /\ empiricalResult' =
                 EmpiricalComplexityRunner_analyze(dataPoints, analysis).returned
            /\ pc' = "regress"
            /\ UNCHANGED thrown
  /\ UNCHANGED <<latticeVars, engineVars, parserVars, staticResult, regressionResult,
                 mergedResult, options, testCases, testIndex, dataPoints,
                 comprehensiveResult>>

\* The loop is over: EmpiricalComplexityRunner.analyze returns, or throws to
\* the catch block of CppComplexityAnalyzer.analyze, which throws
\* 'Analysis failed: ...' to the caller.
FinishSampling ==
  /\ pc = "sampling"
  /\ testIndex >= Len(testCases)
  /\ \E analysis \in PerformanceAnalyses :
       IF EmpiricalComplexityRunner_analyze(dataPoints, analysis).thrown # NoResult
       THEN /\ thrown' = Some("Analysis failed")
            /\ pc' = "thrown"
            /\ UNCHANGED empiricalResult
       ELSE /\ empiricalResult' =
                 EmpiricalComplexityRunner_analyze(dataPoints, analysis).returned
            /\ pc' = "regress"
            /\ UNCHANGED thrown
  /\ UNCHANGED <<latticeVars, engineVars, parserVars, staticResult, regressionResult,
                 mergedResult, options, testCases, testIndex, dataPoints,
                 comprehensiveResult>>

\* Step 3: new CurveFittingEngine(inputSizes, executionTimes).analyze()
Regress ==
  /\ pc = "regress"
  /\ inputSizes' = Val(empiricalResult).inputSizes
  /\ executionTimes' = Val(empiricalResult).executionTimes
  /\ \E regression \in Regressions(Val(empiricalResult).inputSizes,
                                   Val(empiricalResult).executionTimes) :
       regressionResult' = Some(regression)
  /\ pc' = "merge"
  /\ UNCHANGED <<latticeVars, parserVars, pipelineVars,
                 staticResult, empiricalResult, mergedResult>>

\* Sampling is disabled: the two mock results.
MockResults ==
  /\ pc = "mock"
  /\ empiricalResult' = Some(createMockEmpiricalResult)
  /\ regressionResult' = Some(createMockRegressionResult)
  /\ pc' = "merge"
  /\ UNCHANGED <<latticeVars, engineVars, parserVars, pipelineVars,
                 staticResult, mergedResult>>

\* Step 4: new ComplexityResultsMerger(...).merge()
MergeResults ==
  /\ pc = "merge"
  /\ mergedResult' =
       Some(merge(Val(staticResult), Val(empiricalResult), Val(regressionResult)))
  /\ pc' = "report"
  /\ UNCHANGED <<latticeVars, engineVars, parserVars, pipelineVars,
                 staticResult, empiricalResult, regressionResult>>

\* Steps 5 and 6 and the return of analyze().
Return ==
  /\ pc = "report"
  /\ comprehensiveResult' =
       Some(ComprehensiveAnalysisResult(Val(mergedResult), code, Val(empiricalResult)))
  /\ pc' = "returned"
  /\ UNCHANGED <<latticeVars, resultVars, engineVars, parserVars,
                 options, testCases, testIndex, dataPoints, thrown>>

Next ==
  \/ NewStaticAnalyzer
  \/ StaticAnalysis
  \/ NewRunner
  \/ RunSingleTest
  \/ FinishSampling
  \/ Regress
  \/ MockResults
  \/ MergeResults
  \/ Return

Spec == Init /\ [][Next]_vars
(***************************************************************************)
(* Claims about the lattice                                                *)
(***************************************************************************)

\* C7: the comparison is a strict total order over the canonical classes: of
\* two distinct classes exactly one is higher than the other, no class is
\* higher than itself, the relation is transitive, and it agrees with the
\* position of the classes in the canonical list.
C7_StrictTotalOrder ==
  (higher # NoResult /\ complexity1 \in CanonicalClasses /\ complexity2 \in CanonicalClasses) =>
    /\ (complexity1 # complexity2 =>
          (Val(higher) # isHigherComplexity(complexity2, complexity1)))
    /\ (complexity1 = complexity2 => ~Val(higher))
    /\ \A c3 \in CanonicalClasses :
          (Val(higher) /\ isHigherComplexity(complexity2, c3)) =>
             isHigherComplexity(complexity1, c3)
    /\ (Val(higher) <=> IndexOf(order, complexity1) > IndexOf(order, complexity2))

\* C8: the product of two canonical classes is a canonical class.
C8_ProductIsCanonical ==
  (product # NoResult /\ complexity1 \in CanonicalClasses /\ complexity2 \in CanonicalClasses) =>
    Val(product) \in CanonicalClasses

\* C9: multiplying with O(1) on either side returns the other operand.
C9_ConstIsIdentity ==
  product # NoResult =>
    /\ (complexity2 = O_1 => Val(product) = complexity1)
    /\ (complexity1 = O_1 => Val(product) = complexity2)

\* C9 witness: a product was computed with O(1) on the right of another class.
C9_Witness ==
  /\ product # NoResult
  /\ complexity2 = O_1
  /\ complexity1 = O_nlogn


\* C30: multiplyComplexities is commutative on the canonical classes: the
\* product of two classes is the product of the two in the other order.
C30_ProductIsCommutative ==
  (/\ product # NoResult
   /\ complexity1 \in CanonicalClasses
   /\ complexity2 \in CanonicalClasses) =>
    Val(product) = multiplyComplexities(complexity2, complexity1)
(***************************************************************************)
(* Claims about the merger                                                 *)
(***************************************************************************)

\* C1: with structural class Linear and both measured labels Exponential,
\* merge() reports agreement level 'conflict', confidence exactly 0.3, and a
\* range 'Between X and Y' with lower and upper bounds instead of one class.
C1_ConflictOnLinearVsExponential ==
  (/\ mergedResult # NoResult
   /\ Val(staticResult).overallComplexity.timeComplexity = O_n
   /\ Val(empiricalResult).bestFitComplexity = O_2n
   /\ Val(regressionResult).bestFit.complexity = O_2n) =>
    /\ Val(mergedResult).agreement.level = "conflict"
    /\ Val(mergedResult).finalComplexity.confidence = Frac(3, 10)
    /\ Val(mergedResult).finalComplexity.timeComplexity = BetweenText(O_n, O_2n)
    /\ Val(mergedResult).finalComplexity.bounds = [lower |-> O_n, upper |-> O_2n]


\* 1 for a flag that is set, 0 for one that is not.
Indicator(flag) == IF flag THEN Num(1) ELSE Num(0)

NormalizedLabels ==
  <<normalizeComplexity(Val(staticResult).overallComplexity.timeComplexity),
    normalizeComplexity(Val(empiricalResult).bestFitComplexity),
    normalizeComplexity(Val(regressionResult).bestFit.complexity)>>

\* The two labels have places in the merger's order, more than k steps apart.
StepsApart(c1, c2, k) ==
  /\ IndexOf(complexityOrder, c1) >= 0
  /\ IndexOf(complexityOrder, c2) >= 0
  /\ Abs(IndexOf(complexityOrder, c1) - IndexOf(complexityOrder, c2)) > k

\* The three labels have places in the merger's order, none more than k
\* steps from another.
AllWithinSteps(labels, k) ==
  \A i, j \in 1..3 :
    /\ IndexOf(complexityOrder, labels[i]) >= 0
    /\ ~StepsApart(labels[i], labels[j], k)

\* The level the rules of C16 give to three labels.
LevelByRules(labels) ==
  IF labels[1] = labels[2] /\ labels[2] = labels[3] THEN "high"
  ELSE IF labels[1] = labels[2] \/ labels[1] = labels[3] \/ labels[2] = labels[3]
  THEN "medium"
  ELSE IF AllWithinSteps(labels, 2) THEN "medium"
  ELSE IF \E i, j \in 1..3 : StepsApart(labels[i], labels[j], 3) THEN "conflict"
  ELSE "low"

\* C16 as stated: three equal labels are rated high; otherwise two equal
\* labels, or three labels all within 2 steps of each other, medium;
\* otherwise labels with a pair more than 3 steps apart conflict; otherwise
\* low.
C16_AgreementByRules ==
  pc = "merged" => Val(mergedResult).agreement.level = LevelByRules(NormalizedLabels)

\* The final class and confidence at the levels high, medium and conflict,
\* where C17 and the code name the same labels: the static label with the
\* least of the static confidence, the regression confidence and 0.95; the
\* candidate of the highest confidence, the static one first and the
\* sampler's label before the regression's among equals, at 0.8 of that
\* confidence; 'Between <static> and <sampler's>' at 0.3.
FinalAboveLow(level, final, labels, staticConfidence, regressionConfidence) ==
  /\ level = "high" =>
       /\ final.timeComplexity = labels[1]
       /\ final.confidence = MathMin(MathMin(staticConfidence, regressionConfidence),
                                     Frac(95, 100))
  /\ level = "medium" =>
       /\ final.timeComplexity
            = IF Gt(regressionConfidence, staticConfidence) THEN labels[2] ELSE labels[1]
       /\ final.confidence
            = Times(MathMax(staticConfidence, regressionConfidence), Frac(8, 10))
  /\ level = "conflict" =>
       /\ final.timeComplexity
            = <<"B", "e", "t", "w", "e", "e", "n", " ">> \o labels[1]
                \o <<" ", "a", "n", "d", " ">> \o labels[2]
       /\ final.confidence = Frac(3, 10)

\* C17 as stated: at level low the final class is the label of the
\* regression, with a confidence of at most 0.5.
C17_LowTakesRegressionLabel ==
  pc = "merged" =>
    /\ FinalAboveLow(Val(mergedResult).agreement.level, Val(mergedResult).finalComplexity,
                     NormalizedLabels, Val(staticResult).confidence,
                     Val(regressionResult).bestFit.confidence)
    /\ Val(mergedResult).agreement.level = "low" =>
         /\ Val(mergedResult).finalComplexity.timeComplexity = NormalizedLabels[3]
         /\ ~Gt(Val(mergedResult).finalComplexity.confidence, Frac(5, 10))

\* C17 amended: at level low the final class is the label of the sampler,
\* with the lesser of 0.6 of the regression confidence and 0.5; the other
\* levels as stated.
C17_LowTakesSamplerLabel ==
  pc = "merged" =>
    /\ FinalAboveLow(Val(mergedResult).agreement.level, Val(mergedResult).finalComplexity,
                     NormalizedLabels, Val(staticResult).confidence,
                     Val(regressionResult).bestFit.confidence)
    /\ Val(mergedResult).agreement.level = "low" =>
         /\ Val(mergedResult).finalComplexity.timeComplexity = NormalizedLabels[2]
         /\ Val(mergedResult).finalComplexity.confidence
              = MathMin(Times(Val(regressionResult).bestFit.confidence, Frac(6, 10)),
                        Frac(5, 10))

\* C17 witness: a merge at level low, where the sampler's label and the
\* regression's differ and the final class is the sampler's.
C17_Witness ==
  /\ pc = "merged"
  /\ Val(mergedResult).agreement.level = "low"
  /\ NormalizedLabels[2] # NormalizedLabels[3]
  /\ Val(mergedResult).finalComplexity.timeComplexity = NormalizedLabels[2]
  /\ Val(mergedResult).finalComplexity.confidence = Frac(5, 10)

\* The position of a class in the order of growth, -1 for any other text.
GrowthRank(c) == IndexOf(simplicityOrder, c)

\* c1 is not above c2 in the order of growth.
NotAbove(c1, c2) ==
  /\ GrowthRank(c1) >= 0
  /\ GrowthRank(c2) >= 0
  /\ GrowthRank(c1) <= GrowthRank(c2)

\* C26: in every merged verdict the lower bound is not above the upper
\* bound, and a final class that is a single class (levels high, medium and
\* low) lies between the two bounds.  Stated for the verdicts on three
\* growth classes.
C26_FinalClassWithinBounds ==
  (/\ pc = "merged"
   /\ \A k \in 1..3 : GrowthRank(NormalizedLabels[k]) >= 0) =>
    /\ NotAbove(Val(mergedResult).finalComplexity.bounds.lower,
                Val(mergedResult).finalComplexity.bounds.upper)
    /\ Val(mergedResult).agreement.level \in {"high", "medium", "low"} =>
         /\ NotAbove(Val(mergedResult).finalComplexity.bounds.lower,
                     Val(mergedResult).finalComplexity.timeComplexity)
         /\ NotAbove(Val(mergedResult).finalComplexity.timeComplexity,
                     Val(mergedResult).finalComplexity.bounds.upper)

\* The classes two of the three labels share while the third differs.
SharedByTwo(labels) ==
  {labels[i] : i \in {k \in 1..3 :
                        /\ \E j \in 1..3 : j # k /\ labels[j] = labels[k]
                        /\ \E j \in 1..3 : labels[j] # labels[k]}}

\* C27: when the level is medium because exactly two of the three signals
\* agree, the final class is the class the two share, never the class of
\* the dissenting signal.
C27_MediumTakesSharedClass ==
  (/\ pc = "merged"
   /\ Val(mergedResult).agreement.level = "medium"
   /\ SharedByTwo(NormalizedLabels) # {}) =>
    Val(mergedResult).finalComplexity.timeComplexity \in SharedByTwo(NormalizedLabels)

(***************************************************************************)
(* Claims about the regression engine                                      *)
(***************************************************************************)

\* The statistics of a fit, without the per-sample arrays.
FitStatistics(fit) ==
  [complexity |-> fit.complexity,
   rSquared |-> fit.rSquared,
   coefficient |-> fit.coefficient,
   confidence |-> fit.confidence,
   standardErrorSquared |-> fit.standardErrorSquared,
   pValue |-> fit.pValue]

\* What analyze() reports of a sample set, apart from the per-sample arrays.
AnalysisStatistics(analysis) ==
  [bestFit |-> FitStatistics(analysis.bestFit),
   allFits |-> [k \in 1..Len(analysis.allFits) |-> FitStatistics(analysis.allFits[k])],
   reliability |-> analysis.reliability,
   dataQuality |-> analysis.dataQuality]

\* analyze() of the samples taken in the order p[1], p[2], ...
AnalyzePermuted(p) ==
  CurveFittingEngine_analyze([i \in 1..Len(inputSizes) |-> inputSizes[p[i]]],
                             [i \in 1..Len(inputSizes) |-> executionTimes[p[i]]])

\* C10: analyze() reports the same best fit, the same fit statistics and the
\* same data-quality diagnostics and reliability for every reordering of the
\* (size, time) pairs.
C10_PermutationInvariant ==
  pc = "fitted" =>
    \A p \in Permutations(1..Len(inputSizes)) :
      AnalysisStatistics(AnalyzePermuted(p)) = AnalysisStatistics(Val(regressionResult))

\* A fit that selectBestFit's filter rejects.
IsDegenerate(fit) ==
  ~(isFinite(fit.rSquared) /\ isFinite(fit.coefficient) /\ Gt(fit.rSquared, Num(0)))

\* C11 as stated: the best fit of analyze() has a finite coefficient and a
\* finite R-squared above 0, and allFits keeps the fit of every growth
\* function, the degenerate ones included.
C11_DegenerateFitNeverWins ==
  pc = "fitted" =>
    /\ ~IsDegenerate(Val(regressionResult).bestFit)
    /\ [k \in 1..Len(Val(regressionResult).allFits) |->
          Val(regressionResult).allFits[k].complexity] = complexityFunctions

\* Every cost lies within 5% of the mean cost.
NearConstant(times) ==
  LET mean == Over(Sum(times), Num(Len(times)))
  IN  \A i \in 1..Len(times) :
        /\ Ge(times[i], Times(Frac(95, 100), mean))
        /\ Ge(Times(Frac(105, 100), mean), times[i])

\* C12 as stated: on a near-constant cost sequence analyze() selects O(1) as
\* the best fit and reports an R-squared above 0.9 for it.
C12_NearConstantFitsConst ==
  (pc = "fitted" /\ NearConstant(executionTimes)) =>
    /\ Val(regressionResult).bestFit.complexity = O_1
    /\ Gt(Val(regressionResult).bestFit.rSquared, Frac(9, 10))

(***************************************************************************)
(* Properties of the structural analysis                                   *)
(***************************************************************************)

\* The text is empty or made of white space only.
IsBlank(text) == \A i \in 1..Len(text) : text[i] \in WhiteSpace

\* The tree built step by step is the tree parse() returns.
ParseAgrees == pc \in {"parsed", "analyzed"} => Val(ast) = parse(code)

C5_PatternOutranksTree ==
  staticResult # NoResult =>
    LET result == Val(staticResult)
        patterns == result.algorithmPatterns
    IN  IF Len(patterns) > 0
        THEN \E k \in 1..Len(patterns) :
               result.overallComplexity.timeComplexity = patterns[k].complexity.timeComplexity
        ELSE result.overallComplexity.timeComplexity = Val(ast).complexity.timeComplexity

\* The class at lattice position d, "cubic or higher" from d = 3 on.
LatticePosition(d) ==
  IF d = 0 THEN {O_1}
  ELSE IF d = 1 THEN {O_n}
  ELSE IF d = 2 THEN {O_n2}
  ELSE {O_n3, O_2n, O_nfact}

\* C6: source made of d nested counting loops around a constant-time body
\* is reported by the parser with the time class at lattice position d.
C6_NestedLoopsClimbLattice ==
  pc = "parsed" =>
    \A d \in 0..MaxDepth : \A separator \in {<<" ">>, <<"\n">>} :
      code = NestedLoops(d, 1, separator) =>
        Val(ast).complexity.timeComplexity \in LatticePosition(d)

\* The kind parseStatement's tests give a line, the first that matches.
StatementKind(line) ==
  IF isFunctionDeclaration(line) THEN "function"
  ELSE IF isLoopStatement(line) THEN "loop"
  ELSE IF isConditionalStatement(line) THEN "conditional"
  ELSE IF isVariableDeclaration(line) THEN "variable"
  ELSE IF isFunctionCall(line) THEN "call"
  ELSE IF StartsWith(line, <<"r", "e", "t", "u", "r", "n">>) THEN "return"
  ELSE "none"

\* Every line of the text is a declaration, a call or a return: statements
\* without a body, all at the same nesting level.
FlatStatements(text) ==
  \A i \in 1..Len(Split(text)) :
    StatementKind(Trim(Split(text)[i])) \in {"variable", "call", "return"}

\* C18 as stated: the parser holds as many lines as the source text has, and
\* for a text of k statements without bodies, one to a line, the root has k
\* children, the i-th of the kind of the i-th line and with that line as its
\* range.
C18_OneNodePerStatementLine ==
  /\ pc \in {"parse", "parsed", "analyzed"} => Len(lines) = Len(Split(code))
  /\ (pc \in {"parsed", "analyzed"} /\ FlatStatements(code)) =>
       /\ Len(Val(ast).children) = Len(Split(code))
       /\ \A i \in 1..Len(Val(ast).children) :
            /\ Val(ast).children[i].type = StatementKind(Trim(Split(code)[i]))
            /\ Val(ast).children[i].metadata.lineStart = i - 1
            /\ Val(ast).children[i].metadata.lineEnd = i - 1

\* A function of two counting loops, one after the other.
TwoLoopsInSequence ==
  <<"v", "o", "i", "d", " ", "f", "(", ")", " ", "{", "\n", "f", "o", "r", " ", "(", "i", "n", "t", " ", "i", " ", "=", " ", "0", ";", " ", "i", " ", "<", " ", "n", ";", " ", "i", "+", "+", ")", " ", "{", " ", "x", "+", "+", ";", " ", "}", "\n">>
    \o <<"f", "o", "r", " ", "(", "i", "n", "t", " ", "j", " ", "=", " ", "0", ";", " ", "j", " ", "<", " ", "n", ";", " ", "j", "+", "+", ")", " ", "{", " ", "y", "+", "+", ";", " ", "}", "\n", "}">>

\* C19 as stated: the time class of a function that is not recursive is the
\* highest of the time classes of its children, and the function of two
\* linear loops one after the other is O(n).
C19_SiblingsCombineByMax ==
  pc \in {"parsed", "analyzed"} =>
    /\ \A i \in 1..Len(Val(ast).children) :
         (Val(ast).children[i].type = "function"
            /\ ~Val(ast).children[i].metadata.isRecursive) =>
           Val(ast).children[i].complexity.timeComplexity
             = MaxComplexity(TimeComplexities(Val(ast).children[i].children), O_1)
    /\ code = TwoLoopsInSequence =>
         /\ Len(Val(ast).children) = 1
         /\ Val(ast).children[1].type = "function"
         /\ Val(ast).children[1].complexity.timeComplexity = O_n

\* The text between the first opening brace of the source text and its last
\* closing brace: the body of the one function of the text.
BodyText(text) ==
  LET opens == {i \in 1..Len(text) : text[i] = "{"}
      closes == {i \in 1..Len(text) : text[i] = "}"}
  IN  IF opens = {} \/ closes = {} THEN <<>>
      ELSE SubSeq(text, First(opens) + 1,
                  (CHOOSE i \in closes : \A j \in closes : j <= i) - 1)

\* C20 as stated: a function is marked recursive exactly when its name,
\* followed by '(', occurs in its body.
C20_RecursiveIffSelfReference ==
  (pc \in {"parsed", "analyzed"} /\ Len(Val(ast).children) = 1
     /\ Val(ast).children[1].type = "function") =>
    Val(ast).children[1].metadata.isRecursive
      = Includes(BodyText(code), Val(ast).children[1].name \o <<"(">>)

\* The places of the text where the function's name, followed by '(', occurs.
CallSites(text, name) ==
  {i \in 1..Len(text) : OccursAt(text, name \o <<"(">>, i)}

\* The class the rules of C21 give a recursive function with the body.
RecursiveClassByRules(body, name) ==
  LET sites == Cardinality(CallSites(body, name))
      halving == \/ Includes(body, <<"/", "2">>)
                 \/ Includes(body, <<">", ">", "1">>)
                 \/ Includes(body, <<"m", "i", "d">>)
      mergeLike == Includes(body, <<"m", "e", "r", "g", "e">>) \/ Includes(body, <<"s", "o", "r", "t">>)
  IN  IF sites >= 2 /\ halving THEN (IF mergeLike THEN O_nlogn ELSE O_logn)
      ELSE IF sites >= 2 THEN O_2n
      ELSE IF sites = 1 THEN O_n
      ELSE Unknown

\* C21 as stated: a function marked recursive has the class the recursive
\* classifier's rules give its body: by the number of its recursive call
\* sites and the halving evidence, O(n log n) or O(log n), O(2^n), O(n), or
\* Unknown without a call site.
C21_RecursiveClassByCallSites ==
  (pc \in {"parsed", "analyzed"} /\ Len(Val(ast).children) = 1
     /\ Val(ast).children[1].type = "function"
     /\ Val(ast).children[1].metadata.isRecursive) =>
    Val(ast).children[1].complexity.timeComplexity
      = RecursiveClassByRules(BodyText(code), Val(ast).children[1].name)

\* The analyzer reports the catalogue entry of the name.
Reported(name) ==
  \E i \in 1..Len(Val(staticResult).algorithmPatterns) :
    Val(staticResult).algorithmPatterns[i].name = name

\* All the evidence of isHeapSort: heapify, the heap operations of the
\* library, and parent or child indexing.
HeapSortEvidence(lower) ==
  /\ Test(
          <<<<Lit(<<"h", "e", "a", "p", "i", "f", "y">>)>>>>,
          lower)
  /\ Test(
          <<<<Lit(<<"m", "a", "k", "e", "_", "h", "e", "a", "p">>)>>, <<Lit(<<"p", "u",
          "s", "h", "_", "h", "e", "a", "p">>)>>, <<Lit(<<"p", "o", "p", "_", "h", "e",
          "a", "p">>)>>>>,
          lower)
  /\ Test(
          <<<<Lit(<<"p", "a", "r", "e", "n", "t">>)>>, <<Lit(<<"c", "h", "i", "l",
          "d">>)>>, <<Lit(<<"2">>), Star(Space), Lit(<<"*">>), Star(Space),
          Lit(<<"i">>)>>, <<Lit(<<"(">>), Star(Space), Lit(<<"i">>), Star(Space),
          Lit(<<"-">>), Star(Space), Lit(<<"1">>), Star(Space), Lit(<<")">>),
          Star(Space), Lit(<<"/">>), Star(Space), Lit(<<"2">>)>>>>,
          lower)

\* All the evidence of isDFSPattern: a recursive call, a visited array and
\* an adjacency structure.
DFSEvidence(lower) ==
  /\ Test(
          <<<<Lit(<<"d", "f", "s">>), Star(Space), Lit(<<"(">>), Star(Dot),
          Lit(<<")">>), Star(Space), Lit(<<"{">>), Star(AnyChar), Lit(<<"d", "f",
          "s">>), Star(Space), Lit(<<"(">>)>>>>,
          lower)
  /\ Test(
          <<<<Lit(<<"v", "i", "s", "i", "t", "e", "d", "[">>)>>, <<Lit(<<"v", "i", "s",
          "i", "t", "[">>)>>>>,
          lower)
  /\ Test(
          <<<<Lit(<<"a", "d", "j", "[">>)>>, <<Lit(<<"g", "r", "a", "p", "h", "[">>)>>,
          <<Lit(<<"n", "e", "i", "g", "h", "b", "o", "r", "s">>)>>>>,
          lower)

\* C22 as stated: a catalogue entry is reported only when all of its
\* evidence holds on the text; here for Heap Sort and for DFS.
C22_EntryNeedsAllEvidence ==
  staticResult # NoResult =>
    /\ Reported("Heap Sort") => HeapSortEvidence(ToLowerCase(code))
    /\ Reported("Depth-First Search (DFS)") => DFSEvidence(ToLowerCase(code))

\* The braces opened from the line on never balance: no line at which the
\* net count of braces is back at zero.
NeverCloses(theLines, start) ==
  \A i \in start..(Len(theLines) - 1) : BraceCount(theLines, start, i) # 0

\* C23: the parser returns a tree for every text; a line of no statement
\* kind gives no node and the parser moves past it; a function, loop or
\* conditional whose braces never balance ends at the last line.
C23_MalformedSyntaxIsTolerated ==
  pc \in {"parsed", "analyzed"} =>
    /\ ast # NoResult
    /\ currentLine >= Len(lines)
    /\ \A i \in 1..Len(lines) :
         StatementKind(Trim(lines[i])) = "none" =>
           \A k \in 1..Len(Val(ast).children) :
             Val(ast).children[k].metadata.lineStart # i - 1
    /\ \A k \in 1..Len(Val(ast).children) :
         (/\ Val(ast).children[k].type \in {"function", "loop", "conditional"}
          /\ findNextOpenBrace(lines, Val(ast).children[k].metadata.lineStart) # -1
          /\ NeverCloses(lines, findNextOpenBrace(lines,
                                  Val(ast).children[k].metadata.lineStart))) =>
           Val(ast).children[k].metadata.lineEnd = Len(lines) - 1

\* C23 witness: the loop whose brace is never closed is parsed to a loop node
\* that ends at the last line.
C23_Witness ==
  /\ pc = "parsed"
  /\ code = <<"w", "h", "i", "l", "e", " ", "(", "x", ")", " ", "{">>
  /\ Len(Val(ast).children) = 1
  /\ Val(ast).children[1].type = "loop"
  /\ NeverCloses(lines, 0)
  /\ Val(ast).children[1].metadata.lineEnd = Len(lines) - 1

\* A step of the parser, as opposed to a request served by the route.
ParserStep == pc = "parse" /\ response' = response

\* While parse() runs, the cursor is within one line of the end, and the
\* statement parsed next leaves it where it is or further.
CursorInRange ==
  pc = "parse" =>
    /\ currentLine >= 0
    /\ currentLine <= Len(lines) + 1
    /\ currentLine < Len(lines) =>
         parseStatement(lines, currentLine).currentLine >= currentLine

\* C25: parse() terminates: the line cursor never decreases, the nested
\* parsers included, every round of the loop advances it, and parse()
\* returns once the cursor is past the last line.
C25_CursorAdvancesUntilReturn ==
  /\ [](CursorInRange)
  /\ [][currentLine' >= currentLine]_vars
  /\ [][(ParserStep /\ currentLine < Len(lines)) =>
          (pc' = "parse" /\ currentLine' > currentLine)]_vars
  /\ [][(ParserStep /\ currentLine >= Len(lines)) =>
          (pc' = "parsed" /\ currentLine' = currentLine)]_vars

\* C25 witness: parse() returned with the cursor past the last line, after
\* parseFunction moved it into a body.
C25_Witness ==
  /\ pc = "parsed"
  /\ currentLine = Len(lines) + 1
  /\ Len(Val(ast).children) = 1
  /\ Val(ast).children[1].type = "function"
  /\ findNextOpenBrace(lines, 0) = 0

\* The text of the lines the node spans, in the lines given.
SpannedText(node, theLines) ==
  Join(SubSeq(theLines, node.metadata.lineStart + 1,
              Min(node.metadata.lineEnd + 1, Len(theLines))))

\* The shape the parser's classifier sees in the parser's lines: the number
\* of recursive calls and its halving evidence.
ClassifierShape(node, theLines) ==
  LET functionBody == SpannedText(node, theLines)
      recursiveCalls == CountOccurrences(functionBody, node.name, 1) - 1
      halving == \/ Includes(functionBody, <<"/", "2">>)
                 \/ Includes(functionBody, <<">", ">", "1">>)
                 \/ Includes(functionBody, <<"m", "i", "d">>)
  IN  IF recursiveCalls >= 2 /\ halving THEN <<"d", "i", "v", "i", "d", "e", "-", "c", "o", "n", "q", "u", "e", "r">>
      ELSE IF recursiveCalls >= 2 THEN <<"b", "i", "n", "a", "r", "y", "-", "t", "r", "e", "e">>
      ELSE IF recursiveCalls = 1 THEN <<"l", "i", "n", "e", "a", "r">>
      ELSE <<"u", "n", "k", "n", "o", "w", "n">>

\* C29: for every function marked recursive, the recursion type the
\* analyzer reports is the shape the parser's classifier sees: the same
\* number of call sites over the same lines, the same halving evidence.
C29_RecursionTypeAgreesWithClassifier ==
  pc = "analyzed" =>
    \A k \in 1..Len(Val(staticResult).functionAnalysis) :
      \A c \in 1..Len(Val(ast).children) :
        (/\ Val(ast).children[c].type = "function"
         /\ Val(ast).children[c].name = Val(staticResult).functionAnalysis[k].name
         /\ Val(ast).children[c].metadata.isRecursive) =>
          Val(staticResult).functionAnalysis[k].recursionType
            = ClassifierShape(Val(ast).children[c], lines)

(***************************************************************************)
(* Properties of the comprehensive analysis                                *)
(***************************************************************************)

\* The sampler of the running analysis collected fewer than three results.
SamplerFailed ==
  /\ Val(options).includeEmpiricalAnalysis
  /\ pc \in {"regress", "merge", "report", "returned", "thrown"}
  /\ Len(dataPoints) < 3

\* No error has left analyze(); a returned result carries the failure of the
\* sampler as the error message of its empirical part, with no data points,
\* and the regression on no data as a fit of confidence 0.
FailuresAreData ==
  /\ thrown = NoResult
  /\ pc # "thrown"
  /\ pc = "returned" =>
       /\ comprehensiveResult # NoResult
       /\ SamplerFailed =>
            /\ Val(comprehensiveResult).analysis.empirical.errorMessage
                 = "Insufficient data points for empirical analysis"
            /\ Val(comprehensiveResult).analysis.empirical.dataPoints = <<>>
            /\ Val(comprehensiveResult).analysis.regression.bestFit.confidence = Num(0)

\* C2: CppComplexityAnalyzer.analyze() never throws to its caller: a failed
\* sampler, a regression on no data and malformed source are all carried as
\* data on the returned result; no run of analyze() ends in a thrown error.
C2_AnalyzeAlwaysReturnsData ==
  /\ FailuresAreData
  /\ pc \in {"start", "parsed", "runner", "mock", "sampling", "regress", "merge", "report", "returned"}

\* C2 witness: the sampler failed on an unclosed loop and analyze() returned
\* a result that carries the error message.
C2_Witness ==
  /\ pc = "returned"
  /\ SamplerFailed
  /\ code = <<"w", "h", "i", "l", "e", " ", "(", "x", ")", " ", "{">>
  /\ Val(comprehensiveResult).analysis.empirical.errorMessage
       = "Insufficient data points for empirical analysis"

SampledSizes == [i \in 1..Len(dataPoints) |-> dataPoints[i].inputSize]

\* C13 as stated: the sampler takes its samples at the sizes the caller
\* supplied in the inputSizes option (the default sizes when none was
\* supplied), in ascending order and none twice, and one at every such size
\* unless a run failed.
C13_OneSamplePerSuppliedSize ==
  (pc = "regress" /\ Val(options).includeEmpiricalAnalysis) =>
    /\ \A i \in 1..Len(SampledSizes) :
         \E j \in 1..Len(Val(options).inputSizes) :
           SampledSizes[i] = Val(options).inputSizes[j]
    /\ \A i \in 1..(Len(SampledSizes) - 1) : SampledSizes[i] < SampledSizes[i + 1]
    /\ Len(dataPoints) = Len(testCases) =>
         \A j \in 1..Len(Val(options).inputSizes) :
           \E i \in 1..Len(SampledSizes) :
             SampledSizes[i] = Val(options).inputSizes[j]

\* The place of a step of analyze() in the order of the stages.
StageOf(step) ==
  CASE step = "start" -> 0
    [] step = "parsed" -> 1
    [] step \in {"runner", "sampling", "mock"} -> 2
    [] step = "regress" -> 3
    [] step = "merge" -> 4
    [] step \in {"report", "returned", "thrown"} -> 5

\* What each stage has before it, once it has started or produced its output:
\* the finished output of the stage before.
StagesHaveTheirInputs ==
  /\ staticResult # NoResult => ast # NoResult
  /\ (pc \in {"runner", "sampling"} \/ testCases # <<>>) => staticResult # NoResult
  /\ pc = "sampling" =>
       empiricalResult = NoResult /\ regressionResult = NoResult /\ mergedResult = NoResult
  /\ empiricalResult # NoResult =>
       /\ staticResult # NoResult
       /\ Val(options).includeEmpiricalAnalysis => testIndex = Len(testCases)
  /\ regressionResult # NoResult =>
       /\ empiricalResult # NoResult
       /\ Val(options).includeEmpiricalAnalysis =>
            /\ inputSizes = Val(empiricalResult).inputSizes
            /\ executionTimes = Val(empiricalResult).executionTimes
  /\ mergedResult # NoResult =>
       /\ regressionResult # NoResult
       /\ Val(mergedResult).analysis =
            [static |-> Val(staticResult), empirical |-> Val(empiricalResult),
             regression |-> Val(regressionResult)]

\* C14: analyze() goes through parse, pattern-match, sample, regress and
\* reconcile in this order, never back; a stage starts only when the stage
\* before it has finished and left its whole output, the asynchronous
\* sampling included.
C14_StagesRunInOrder ==
  /\ [](StagesHaveTheirInputs)
  /\ [][StageOf(pc') >= StageOf(pc)]_vars

\* C14 witness: an analysis with sampling went through every stage and
\* returned; every test case was run before the regression.
C14_Witness ==
  /\ pc = "returned"
  /\ Val(options).includeEmpiricalAnalysis
  /\ Len(dataPoints) = Len(baseSizes)
  /\ regressionResult # NoResult
  /\ mergedResult # NoResult

\* The greatest sample size the iteration count is probed at.
MaxSize == 400

\* The iteration count lies between 3 and 10 and is what the formula gives.
IterationsInRange(size) ==
  /\ Iterations(size) >= 3
  /\ Iterations(size) <= 10
  /\ \E q \in {1000 \div size} :
       Iterations(size) = (IF q >= 10 THEN 10 ELSE IF q <= 3 THEN 3 ELSE q)

\* C24: for every positive sample size the number of iterations averaged
\* into the sample is between 3 and 10 inclusive and does not increase with
\* the size, and the recorded cost is the mean of the per-iteration costs.
C24_IterationsBoundedAndAveraged ==
  /\ (pc = "runner") =>
       \A size \in 1..MaxSize :
         /\ IterationsInRange(size)
         /\ size > 1 => Iterations(size) <= Iterations(size - 1)
  /\ \A i \in 1..Len(dataPoints) :
       /\ dataPoints[i].inputSize > 0
       /\ dataPoints[i].iterations >= 3
       /\ dataPoints[i].iterations <= 10
       /\ IterationsInRange(dataPoints[i].inputSize)
       /\ dataPoints[i].iterations = Iterations(dataPoints[i].inputSize)
       /\ \A j \in 1..Len(dataPoints) :
            dataPoints[i].inputSize <= dataPoints[j].inputSize =>
              dataPoints[i].iterations >= dataPoints[j].iterations
       /\ \E times \in Executions(dataPoints[i].inputSize) :
            /\ Len(times) = dataPoints[i].iterations
            /\ Times(dataPoints[i].executionTime, Num(Len(times))) = Sum(times)

\* C24 witness: a small size averaged over ten runs and a large size over
\* three, the mean lying between the shortest and the longest run.
C24_Witness ==
  /\ Len(dataPoints) = Len(baseSizes)
  /\ dataPoints[1].iterations = 10
  /\ dataPoints[Len(dataPoints)].iterations = 3
  /\ dataPoints[1].executionTime = Frac(22, 10000)
  /\ Gt(dataPoints[Len(dataPoints)].executionTime, Frac(2, 1000))

\* Sampling was disabled and the two mock results, both labelled 'Unknown',
\* were merged with the static result.
MergedWithoutSampling ==
  /\ mergedResult # NoResult
  /\ ~Val(options).includeEmpiricalAnalysis
  /\ Val(empiricalResult).bestFitComplexity = Unknown
  /\ Val(regressionResult).bestFit.complexity = Unknown

\* C28: when sampling is disabled the merged verdict claims no consensus:
\* the level is neither high nor medium, consensusReached and
\* crossValidation are false, and neither bound is 'Unknown'.
C28_NoConsensusWithoutSampling ==
  MergedWithoutSampling =>
    /\ Val(mergedResult).agreement.level \notin {"high", "medium"}
    /\ ~Val(mergedResult).agreement.consensusReached
    /\ ~Val(mergedResult).validation.crossValidation
    /\ Val(mergedResult).finalComplexity.bounds.lower # Unknown
    /\ Val(mergedResult).finalComplexity.bounds.upper # Unknown
====
